---- MODULE Spec2Model ----
(***************************************************************************)
(* A model of flowgen.                                                     *)
(*                                                                         *)
(*   Spec       the stages of a pipeline (file source, http processor,     *)
(*              object-store writer) on one tokio broadcast channel, and   *)
(*              the ordering gate the consuming stages apply;              *)
(*   SpecRecon  the JetStream stream reconciliation that                   *)
(*              jetstream::publisher::Builder::build runs;                 *)
(*   SpecFlow   Flow::init, which builds the source and the JetStream      *)
(*              target and forwards the channel's messages to it.          *)
(***************************************************************************)
EXTENDS Integers, Sequences, FiniteSets, TLC

(***************************************************************************)
(* Bounds of the model                                                     *)
(***************************************************************************)
\* Capacity of the broadcast channel.  flow.rs:81 creates it with 200; the
\* model keeps the ring buffer and its lag rule and scales the size down.
Capacity == 1
\* Most record batches the CSV reader of the file source yields.
MaxBatches == 1
\* Most events published by a holder of the Sender that is not a stage.
MaxExternal == 1
\* Most FileMessages the tasks of Flow::init's file source send.
MaxChunks == 2
\* Most events the receive loop of Writer::run gets in the handler model.
MaxEvents == 2
\* Most times the clock advances while the handlers run.
MaxTicks == 1
\* Largest batch_size the jetstream subscriber is configured with.
MaxBatchSize == 2
\* Most times Cache::init is called on one cache.
MaxInits == 2
\* Width of usize in the model: ids are 0 .. 2^UsizeBits - 1.
UsizeBits == 2

UsizeMax == 2 ^ UsizeBits - 1

\* Option<T>: Some(v) and None.
Some(v) == <<v>>
None == <<>>

Sources == {"file"}
Gated == {"http", "writer"}
Stages == Sources \cup Gated
\* Task ids are the positions of the tasks in flow.tasks.
MaxTaskId == Cardinality(Stages) - 1
\* "rx0" is the Receiver that tokio::sync::broadcast::channel returns.
Receivers == {"rx0"} \cup Gated

NoEvent == [current_task_id |-> None, by |-> "none", seq |-> 0]

VARIABLES
    buffer,            \* broadcast channel: the retained events, oldest first
    tail,              \* broadcast channel: number of events sent so far
    sent,              \* history: every event sent, in order
    rx,                \* receiver -> [state, next, sub]
    senders,           \* holders of a live Sender ("orch": channel()'s own)
    current_task_id,   \* stage -> the id its builder was given
    assembled,         \* number of tasks of flow.tasks built so far
    overflow_checks,   \* TRUE: the build panics on integer overflow
    pc,                \* stage -> position of its task
    m,                 \* http processor: the admitted event being worked on
    received,          \* history: consuming stage -> events recv returned
    admitted,          \* history: consuming stage -> events that passed the gate
    exit,              \* consuming stage -> the recv error that ended its loop
    batches,           \* file source: batches sent so far
    external,          \* events published by a non-stage holder so far
    opResult,          \* stage -> what subscribe / process / run returned
    stream,            \* JetStream: the remote stream, [exists, config]
    builder,           \* publisher builder -> the state of its build
    applied,           \* history: subjects the successful builds asked for
    last,              \* history: the last successful build
    flow,              \* Flow::init: [pc, source, result, task, ...]
    run,               \* Writer::run with its handlers: [pc, result, got]
    handlers,          \* the spawned EventHandlers, in the order of admission
    lockq,             \* handlers waiting for the object store's Mutex, first first
    written,           \* history: the writes that took effect, in order
    now,               \* the clock Utc::now() reads
    subscriber,        \* jetstream Subscriber::subscribe: [pc, taken, ...]
    emitted,           \* history: the events the jetstream subscriber sent
    event_builder,     \* EventBuilder: [pc, data, subject, current_task_id]
    event_result,      \* what EventBuilder::build returned
    bucket,            \* JetStream key-value: the remote bucket
    cache,             \* nats Cache: [pc, store, ...]
    cache_log,         \* history: what put and get returned
    client_builder,    \* object-store ClientBuilder: [path, credentials, options]
    client,            \* object-store Client, when one exists
    connect_result,    \* what Client::connect returned
    context_builder,   \* TaskContextBuilder: [pc, flow_name, flow_labels, host]
    context_result,    \* what TaskContextBuilder::build returned
    cloned,            \* a clone of the TaskContext built
    manager,           \* TaskManager: [tx, started, queue, received, calls]
    generate,          \* generate Subscriber::run: [pc, count, counter, ...]
    connector          \* a connector builder: [kind, pc, config, ...]

busVars == <<buffer, tail, sent, rx, senders>>
stageVars == <<current_task_id, assembled, overflow_checks, pc, m, received,
               admitted, exit, batches, external, opResult>>
reconVars == <<stream, builder, applied, last>>
flowVars == <<flow>>
handlerVars == <<run, handlers, lockq, written, now>>
subVars == <<subscriber, emitted>>
pipelineVars == <<busVars, stageVars, reconVars, flowVars, handlerVars, subVars>>
eventVars == <<event_builder, event_result>>
cacheVars == <<bucket, cache, cache_log>>
clientVars == <<client_builder, client, connect_result>>
contextVars == <<context_builder, context_result, cloned>>
serviceVars == <<manager, generate, connector>>
unitVars == <<eventVars, cacheVars, clientVars, contextVars, serviceVars>>
vars == <<pipelineVars, unitVars>>

(***************************************************************************)
(* tokio::sync::broadcast                                                  *)
(***************************************************************************)
LiveRx == {r \in Receivers : rx[r].state = "live"}

\* Position of the oldest retained event.
Oldest == tail - Len(buffer)

\* A channel that keeps every event it is sent.
PushKeepAll(b, e) == Append(b, e)

\* The slot write of Sender::send: a full ring overwrites its oldest slot.
Push(b, e) == IF Len(b) < Capacity THEN Append(b, e) ELSE Append(Tail(b), e)

\* A subscription that replays what the channel still retains.
SubscribeAtOldest == Oldest

\* Sender::subscribe: the new receiver starts at the current tail.
SubscribeAt == tail

Subscribed == [state |-> "live", next |-> SubscribeAt, sub |-> tail]
Dropped(r) == [rx[r] EXCEPT !.state = "dropped"]

\* Sender::send fails exactly when no receiver is alive; it never waits for one.
CanSend == LiveRx # {}

\* The event a successful send of (id, by) stores.
Stamp(id, by) == [current_task_id |-> id, by |-> by, seq |-> tail + 1]

\* Receiver::recv: Lagged when the next slot was overwritten, the value when
\* one is there, Closed when every Sender is gone, else the caller waits.
RecvKind(r) ==
    IF rx[r].next < Oldest THEN "Lagged"
    ELSE IF rx[r].next < tail THEN "Ok"
    ELSE IF senders = {} THEN "Closed"
    ELSE "Empty"

RecvValue(r) == buffer[rx[r].next - Oldest + 1]

Advanced(r) == [rx[r] EXCEPT !.next = @ + 1]

\* Sender::send of an event tagged id by publisher p.
Send(id, p) ==
    /\ CanSend
    /\ buffer' = Push(buffer, Stamp(id, p))
    /\ tail' = tail + 1
    /\ sent' = Append(sent, Stamp(id, p))

(***************************************************************************)
(* The ordering gate                                                       *)
(***************************************************************************)
\* self.current_task_id - 1 on usize: with overflow checks the subtraction
\* panics at 0, without them it wraps.
SubPanics(t) == t = 0 /\ overflow_checks
Pred(t) == IF t > 0 THEN t - 1 ELSE UsizeMax

\* m.current_task_id == Some(self.current_task_id - 1)
Admits(t, e) == e.current_task_id = Some(Pred(t))

\* A stage that republishes under the id of the event it admitted.
TagOfAdmitted(t, e) == IF e.current_task_id = None THEN Some(t) ELSE e.current_task_id

\* EventBuilder ... .current_task_id(self.current_task_id): the id a stage
\* built with id t puts on what it publishes while it handles e.
Tag(t, e) == Some(t)

(***************************************************************************)
(* Assembly                                                                *)
(***************************************************************************)
\* The configured orders of the tasks: each stage's id is its position.
TaskOrders ==
    {f \in [Stages -> 0 .. MaxTaskId] : \A s, t \in Stages : f[s] = f[t] => s = t}

\* The task list is walked in order: stage s is built when its position is next.
IsNext(s) == current_task_id[s] = assembled

(***************************************************************************)
(* JetStream: the stream and the publisher's configuration                 *)
(***************************************************************************)
\* Longest subject list of a configuration or of the stream found at start.
MaxSubjects == 1

Subjects == {"x", "y", "z"}

\* The order of the subjects as strings, which Vec::sort uses.
Rank(s) == CASE s = "x" -> 1 [] s = "y" -> 2 [] s = "z" -> 3

SubjectLists == UNION {[1 .. n -> Subjects] : n \in 1 .. MaxSubjects}
SetOf(q) == {q[i] : i \in 1 .. Len(q)}

\* config::Target: subjects, max_age and stream_description.
Configs ==
    [subjects : SubjectLists,
     max_age : {None, Some(3600)},
     stream_description : {None, Some("events")}]

\* `let mut max_age = 86400`, kept when the configuration sets none.
DefaultMaxAge == 86400

\* A build that creates the stream without the configured subjects.
StreamConfigNoSubjects(config) ==
    [description |-> config.stream_description,
     max_messages_per_subject |-> 1,
     subjects |-> <<>>,
     discard |-> "Old",
     retention |-> "Limits",
     max_age |-> IF config.max_age = None THEN DefaultMaxAge ELSE config.max_age[1],
     rest |-> "default"]

\* A build that gives the stream no max_age when the configuration sets none.
StreamConfigNoDefaultAge(config) ==
    [description |-> config.stream_description,
     max_messages_per_subject |-> 1,
     subjects |-> config.subjects,
     discard |-> "Old",
     retention |-> "Limits",
     max_age |-> IF config.max_age = None THEN 0 ELSE config.max_age[1],
     rest |-> "default"]

\* The stream::Config build assembles; `rest` stands for every field it takes
\* from Default::default().
StreamConfig(config) ==
    [description |-> config.stream_description,
     max_messages_per_subject |-> 1,
     subjects |-> config.subjects,
     discard |-> "Old",
     retention |-> "Limits",
     max_age |-> IF config.max_age = None THEN DefaultMaxAge ELSE config.max_age[1],
     rest |-> "default"]

\* A stream somebody else configured.
ForeignConfig(q) ==
    [description |-> Some("theirs"),
     max_messages_per_subject |-> 5,
     subjects |-> q,
     discard |-> "New",
     retention |-> "WorkQueue",
     max_age |-> 0,
     rest |-> "custom"]

NoStream == [exists |-> FALSE, config |-> <<>>]
Present(cfg) == [exists |-> TRUE, config |-> cfg]

\* The streams a build may find: none, one an earlier build left, a foreign one.
InitialStreams ==
    {NoStream}
    \cup {Present(StreamConfig([subjects |-> q, max_age |-> None,
                                stream_description |-> None])) :
            q \in {l \in SubjectLists : Cardinality(SetOf(l)) = Len(l)}}
    \cup {Present(ForeignConfig(q)) :
            q \in {l \in SubjectLists : Cardinality(SetOf(l)) = Len(l)}}

\* A merge that keeps only the configured subjects.
ExtendReplacing(S, D) == D

\* subjects.extend(self.config.subjects)
Extend(S, D) == S \o D

\* subjects.sort()
RECURSIVE Insert(_, _)
Insert(q, s) ==
    IF q = <<>> THEN <<s>>
    ELSE IF Rank(s) < Rank(Head(q)) THEN <<s>> \o q
    ELSE <<Head(q)>> \o Insert(Tail(q), s)

RECURSIVE Sort(_)
Sort(q) == IF q = <<>> THEN <<>> ELSE Insert(Sort(Tail(q)), Head(q))

\* A dedup that drops nothing.
DedupNothing(q) == q

\* subjects.dedup(): drops an element equal to the one before it.
RECURSIVE Dedup(_)
Dedup(q) ==
    IF Len(q) < 2 THEN q
    ELSE IF q[1] = q[2] THEN Dedup(Tail(q))
    ELSE <<q[1]>> \o Dedup(Tail(q))

Builders == {"b1"}

IdleBuilder ==
    [pc |-> "idle", config |-> <<>>, stream_config |-> <<>>, lookup |-> "none",
     fetched |-> <<>>, calls |-> <<>>, start |-> NoStream, error |-> "none"]

\* History of the last successful build: what it asked for, the subjects of
\* the stream after it and the call it made; `repeat` says that the successful
\* build before it asked for the same subjects, and prev_ is that build's.
NoBuild ==
    [any |-> FALSE, desired |-> {}, after |-> {}, via |-> "none",
     repeat |-> FALSE, prev_after |-> {}, prev_via |-> "none"]

(***************************************************************************)
(* Idle values of the parts a specification does not run                   *)
(***************************************************************************)
IdleBus ==
    /\ buffer = <<>>
    /\ tail = 0
    /\ sent = <<>>
    /\ senders = {"orch"}

NoReceiver == [state |-> "none", next |-> 0, sub |-> 0]

IdleStages ==
    /\ assembled = 0
    /\ pc = [s \in Stages |-> "init"]
    /\ m = NoEvent
    /\ received = [s \in Gated |-> <<>>]
    /\ admitted = [s \in Gated |-> <<>>]
    /\ exit = [s \in Gated |-> "none"]
    /\ batches = 0
    /\ external = 0
    /\ opResult = [s \in Stages |-> "none"]

NotAssembled ==
    /\ rx = [r \in Receivers |-> NoReceiver]
    /\ current_task_id = [s \in Stages |-> 0]
    /\ overflow_checks = FALSE

IdleRecon ==
    /\ stream = NoStream
    /\ builder = [b \in Builders |-> IdleBuilder]
    /\ applied = {}
    /\ last = NoBuild

\* config::Source: the kinds of source a flow is configured with.
SourceKinds == {"file", "salesforce_pubsub", "nats_jetstream", "gcp_storage"}

\* Flow::init before its first step, with source kind k.
NewFlow(k) ==
    [pc |-> "service", source |-> k, result |-> "none", error |-> "none",
     task |-> "none", exit |-> "none", published |-> <<>>, built |-> <<>>]

IdleFlow == flow = [NewFlow("file") EXCEPT !.pc = "idle"]

\* Writer::run not yet called, no handler spawned.
IdleRun == [pc |-> "init", result |-> "none", got |-> 0]

IdleHandlers ==
    /\ run = IdleRun
    /\ handlers = <<>>
    /\ lockq = <<>>
    /\ written = <<>>
    /\ now = 0

\* Subscriber::subscribe not yet called.
IdleSub == [pc |-> "init", current_task_id |-> 0, batch_size |-> 0, taken |-> 0,
            skipped |-> 0, result |-> "none", task |-> "none", error |-> "none",
            delivered |-> <<>>]

IdleSubscriber ==
    /\ subscriber = IdleSub
    /\ emitted = <<>>

\* EventBuilder::new(): nothing set.
NewEventBuilder == [pc |-> "new", data |-> None, subject |-> None, current_task_id |-> None]
NoResult == [returned |-> FALSE, ok |-> FALSE, value |-> None, error |-> "none"]
Ok(v) == [returned |-> TRUE, ok |-> TRUE, value |-> Some(v), error |-> "none"]
Err(e) == [returned |-> TRUE, ok |-> FALSE, value |-> None, error |-> e]

IdleEvent ==
    /\ event_builder = NewEventBuilder
    /\ event_result = NoResult

\* The keys and values the cache is used with.
Keys == {"k1", "k2"}
CacheValues == {"v1", "v2"}

\* No bucket on the server.
NoBucket ==
    [exists |-> FALSE, history |-> 0, entries |-> [k \in Keys |-> None], created |-> 0]

\* CacheBuilder::build: a Cache with no store.
NewCache == [pc |-> "built", store |-> None, lookup |-> "none", inits |-> 0]

\* History: per key the value of the latest put that returned Ok, whether the
\* store took it and after how many inits; and the latest get since.
NoCacheLog ==
    [put |-> [k \in Keys |-> None],
     stored |-> [k \in Keys |-> FALSE],
     epoch |-> [k \in Keys |-> 0],
     key |-> "none", case |-> "none", get |-> NoResult]

IdleCache ==
    /\ bucket = NoBucket
    /\ cache = NewCache
    /\ cache_log = NoCacheLog

\* ClientBuilder::new(): Default.
NewClientBuilder ==
    [pc |-> "new", path |-> None, credentials |-> None, options |-> None,
     error |-> "none"]

IdleClient ==
    /\ client_builder = NewClientBuilder
    /\ client = None
    /\ connect_result = NoResult

\* TaskContextBuilder::new(): Default.
NewContextBuilder == [pc |-> "new", flow_name |-> None, flow_labels |-> None, host |-> None]

IdleContext ==
    /\ context_builder = NewContextBuilder
    /\ context_result = NoResult
    /\ cloned = None

\* TaskManagerBuilder::build: no sender yet; nothing registered.
NewManager ==
    [tx |-> None, started |-> FALSE, queue |-> <<>>, received |-> <<>>, calls |-> <<>>]

\* Subscriber::run not yet called.
NewGenerate ==
    [pc |-> "idle", count |-> None, current_task_id |-> 0, counter |-> 0,
     receiver |-> FALSE, overflow_checks |-> FALSE, published |-> <<>>,
     result |-> NoResult]

\* A connector builder of some kind after new(): Default.
NewConnector(kind) ==
    [kind |-> kind, pc |-> "new", config |-> None, channel |-> None,
     current_task_id |-> 0, credentials_path |-> None, result |-> NoResult]

IdleServices ==
    /\ manager = NewManager
    /\ generate = NewGenerate
    /\ connector = [NewConnector("none") EXCEPT !.pc = "idle"]

IdleUnits == IdleEvent /\ IdleCache /\ IdleClient /\ IdleContext /\ IdleServices

(***************************************************************************)
(* Initial state of the pipeline                                           *)
(***************************************************************************)
Init ==
    /\ IdleBus
    /\ \E rx0 \in {"live", "dropped"} :
          rx = [r \in Receivers |->
                  IF r = "rx0" THEN [NoReceiver EXCEPT !.state = rx0] ELSE NoReceiver]
    /\ current_task_id \in TaskOrders
    /\ overflow_checks \in BOOLEAN
    /\ IdleStages
    /\ IdleRecon
    /\ IdleFlow
    /\ IdleHandlers
    /\ IdleSubscriber
    /\ IdleUnits

(***************************************************************************)
(* File source                                                             *)
(***************************************************************************)
\* What Subscriber::subscribe and Processor::process return: each spawns a
\* task that joins the handles and drops the outcome, and returns Ok(()) at once.
JoinDetached == "Ok"

\* SubscriberBuilder::new clones the Sender, build spawns the reading task and
\* Subscriber::subscribe returns.  The task opens the file, infers the schema
\* and builds the reader: each may fail, and ends the task with the error.
FileBuild ==
    /\ pc["file"] = "init"
    /\ IsNext("file")
    /\ assembled' = assembled + 1
    /\ opResult' = [opResult EXCEPT !["file"] = JoinDetached]
    /\ \/ /\ pc' = [pc EXCEPT !["file"] = "read"]
          /\ senders' = senders \cup {"file"}
       \/ /\ pc' = [pc EXCEPT !["file"] = "failed"]
          /\ UNCHANGED senders
    /\ UNCHANGED <<buffer, tail, sent, rx, current_task_id, overflow_checks, m,
                   received, admitted, exit, batches, external>>
    /\ UNCHANGED <<reconVars, handlerVars, subVars, flowVars, unitVars>>

\* A send that is ignored: the stage stays in its loop with its sender.
SendErrorIgnored(s) ==
    /\ ~CanSend
    /\ UNCHANGED <<pc, senders, buffer, tail, sent>>

\* `self.tx.send(e).map_err(Error::SendMessage)?` on a channel with no live
\* receiver: nothing is queued, the task returns the send error and its
\* sender is dropped with it.
SendError(s) ==
    /\ ~CanSend
    /\ pc' = [pc EXCEPT ![s] = "send_error"]
    /\ senders' = senders \ {s}
    /\ UNCHANGED <<buffer, tail, sent>>

\* One turn of `for batch in csv`: the batch is an error, or an event tagged
\* with the source's id is built and sent; a send with no receiver is an error.
FileBatch ==
    /\ pc["file"] = "read"
    /\ batches < MaxBatches
    /\ \/ /\ pc' = [pc EXCEPT !["file"] = "failed"]
          /\ senders' = senders \ {"file"}
          /\ UNCHANGED <<buffer, tail, sent, batches>>
       \/ /\ Send(Tag(current_task_id["file"], NoEvent), "file")
          /\ batches' = batches + 1
          /\ UNCHANGED <<pc, senders>>
       \/ /\ SendError("file")
          /\ batches' = batches + 1
    /\ UNCHANGED <<rx, current_task_id, assembled, overflow_checks, m, received,
                   admitted, exit, external, opResult>>
    /\ UNCHANGED <<reconVars, handlerVars, subVars, flowVars, unitVars>>

\* The reader is exhausted: the task returns Ok(()).
FileEnd ==
    /\ pc["file"] = "read"
    /\ pc' = [pc EXCEPT !["file"] = "done"]
    /\ senders' = senders \ {"file"}
    /\ UNCHANGED <<buffer, tail, sent, rx, current_task_id, assembled,
                   overflow_checks, m, received, admitted, exit, batches,
                   external, opResult>>
    /\ UNCHANGED <<reconVars, handlerVars, subVars, flowVars, unitVars>>

(***************************************************************************)
(* Consuming stages: `while let Ok(m) = rx.recv().await`                   *)
(***************************************************************************)
\* recv returned an error at stage s: `while let Ok` matches neither Lagged nor
\* Closed, so the loop ends, the task returns Ok(()) and drops what it owns.
RecvError(s) ==
    /\ exit' = [exit EXCEPT ![s] = RecvKind(s)]
    /\ pc' = [pc EXCEPT ![s] = "done"]
    /\ rx' = [rx EXCEPT ![s] = Dropped(s)]
    /\ senders' = senders \ {s}

(***************************************************************************)
(* Http processor                                                          *)
(***************************************************************************)
\* Builder::new clones the Sender and subscribes a receiver, Builder::build
\* spawns the receive loop and Processor::process returns.
HttpBuild ==
    /\ pc["http"] = "init"
    /\ IsNext("http")
    /\ assembled' = assembled + 1
    /\ pc' = [pc EXCEPT !["http"] = "recv"]
    /\ rx' = [rx EXCEPT !["http"] = Subscribed]
    /\ senders' = senders \cup {"http"}
    /\ opResult' = [opResult EXCEPT !["http"] = JoinDetached]
    /\ UNCHANGED <<buffer, tail, sent, current_task_id, overflow_checks, m,
                   received, admitted, exit, batches, external>>
    /\ UNCHANGED <<reconVars, handlerVars, subVars, flowVars, unitVars>>

\* One recv of the loop and the gate on what it returned.
HttpRecv ==
    /\ pc["http"] = "recv"
    /\ RecvKind("http") # "Empty"
    /\ IF RecvKind("http") # "Ok"
       THEN /\ RecvError("http")
            /\ UNCHANGED <<m, received, admitted>>
       ELSE LET e == RecvValue("http") IN
            /\ received' = [received EXCEPT !["http"] = Append(@, e)]
            /\ UNCHANGED exit
            /\ IF SubPanics(current_task_id["http"])
               THEN /\ pc' = [pc EXCEPT !["http"] = "panicked"]
                    /\ rx' = [rx EXCEPT !["http"] =
                                [Advanced("http") EXCEPT !.state = "dropped"]]
                    /\ senders' = senders \ {"http"}
                    /\ UNCHANGED <<m, admitted>>
               ELSE /\ rx' = [rx EXCEPT !["http"] = Advanced("http")]
                    /\ UNCHANGED senders
                    /\ IF Admits(current_task_id["http"], e)
                       THEN /\ admitted' = [admitted EXCEPT !["http"] = Append(@, e)]
                            /\ m' = e
                            /\ pc' = [pc EXCEPT !["http"] = "work"]
                       ELSE UNCHANGED <<m, admitted, pc>>
    /\ UNCHANGED <<buffer, tail, sent, current_task_id, assembled,
                   overflow_checks, batches, external, opResult>>
    /\ UNCHANGED <<reconVars, handlerVars, subVars, flowVars, unitVars>>

\* The body of the gate: the GET and its decoding are unwrapped, so a failure
\* panics; otherwise a new event tagged with the processor's id is sent.
HttpWork ==
    /\ pc["http"] = "work"
    /\ \/ /\ pc' = [pc EXCEPT !["http"] = "panicked"]
          /\ rx' = [rx EXCEPT !["http"] = Dropped("http")]
          /\ senders' = senders \ {"http"}
          /\ UNCHANGED <<buffer, tail, sent>>
       \/ /\ Send(Tag(current_task_id["http"], m), "http")
          /\ pc' = [pc EXCEPT !["http"] = "recv"]
          /\ UNCHANGED <<rx, senders>>
       \/ /\ SendError("http")
          /\ rx' = [rx EXCEPT !["http"] = Dropped("http")]
    /\ m' = NoEvent
    /\ UNCHANGED <<current_task_id, assembled, overflow_checks, received,
                   admitted, exit, batches, external, opResult>>
    /\ UNCHANGED <<reconVars, handlerVars, subVars, flowVars, unitVars>>

(***************************************************************************)
(* Object-store writer                                                     *)
(***************************************************************************)
\* WriterBuilder: receiver(tx.subscribe()), current_task_id(t), build; then
\* Writer::run up to its loop: the path, the url and the store options are
\* parsed, and each failure returns the error.
WriterBuild ==
    /\ pc["writer"] = "init"
    /\ IsNext("writer")
    /\ assembled' = assembled + 1
    /\ \/ /\ pc' = [pc EXCEPT !["writer"] = "recv"]
          /\ rx' = [rx EXCEPT !["writer"] = Subscribed]
          /\ UNCHANGED opResult
       \/ /\ pc' = [pc EXCEPT !["writer"] = "failed"]
          /\ rx' = [rx EXCEPT !["writer"] = [Subscribed EXCEPT !.state = "dropped"]]
          /\ opResult' = [opResult EXCEPT !["writer"] = "Err"]
    /\ UNCHANGED <<buffer, tail, sent, senders, current_task_id, overflow_checks,
                   m, received, admitted, exit, batches, external>>
    /\ UNCHANGED <<reconVars, handlerVars, subVars, flowVars, unitVars>>

\* One recv of Writer::run's loop and the gate; an admitted event is handed to
\* a spawned EventHandler.  When the loop ends run returns Ok(()).
WriterRecv ==
    /\ pc["writer"] = "recv"
    /\ RecvKind("writer") # "Empty"
    /\ IF RecvKind("writer") # "Ok"
       THEN /\ RecvError("writer")
            /\ opResult' = [opResult EXCEPT !["writer"] = "Ok"]
            /\ UNCHANGED <<received, admitted>>
       ELSE LET e == RecvValue("writer") IN
            /\ received' = [received EXCEPT !["writer"] = Append(@, e)]
            /\ UNCHANGED <<exit, senders, opResult>>
            /\ IF SubPanics(current_task_id["writer"])
               THEN /\ pc' = [pc EXCEPT !["writer"] = "panicked"]
                    /\ rx' = [rx EXCEPT !["writer"] =
                                [Advanced("writer") EXCEPT !.state = "dropped"]]
                    /\ UNCHANGED admitted
               ELSE /\ rx' = [rx EXCEPT !["writer"] = Advanced("writer")]
                    /\ UNCHANGED pc
                    /\ IF Admits(current_task_id["writer"], e)
                       THEN admitted' = [admitted EXCEPT !["writer"] = Append(@, e)]
                       ELSE UNCHANGED admitted
    /\ UNCHANGED <<buffer, tail, sent, current_task_id, assembled,
                   overflow_checks, m, batches, external>>
    /\ UNCHANGED <<reconVars, handlerVars, subVars, flowVars, unitVars>>

(***************************************************************************)
(* The other holders of the channel                                        *)
(***************************************************************************)
\* The Sender returned by channel() is dropped once every stage has its clone.
DropTx ==
    /\ "orch" \in senders
    /\ assembled = Cardinality(Stages)
    /\ senders' = senders \ {"orch"}
    /\ UNCHANGED <<buffer, tail, sent, rx, stageVars, reconVars, handlerVars, subVars, flowVars, unitVars>>

\* Ids no stage of the pipeline tags its events with.
ExternalIds == {None, Some(UsizeMax)}

\* Another holder of the Sender publishes an event.
ExternalSend ==
    /\ external < MaxExternal
    /\ "orch" \in senders
    /\ \E id \in ExternalIds : Send(id, "ext")
    /\ external' = external + 1
    /\ UNCHANGED <<rx, senders, current_task_id, assembled, overflow_checks, pc,
                   m, received, admitted, exit, batches, opResult>>
    /\ UNCHANGED <<reconVars, handlerVars, subVars, flowVars, unitVars>>

Next ==
    \/ FileBuild \/ FileBatch \/ FileEnd
    \/ HttpBuild \/ HttpRecv \/ HttpWork
    \/ WriterBuild \/ WriterRecv
    \/ DropTx \/ ExternalSend

Spec == Init /\ [][Next]_vars

(***************************************************************************)
(* Properties of the pipeline                                              *)
(***************************************************************************)
Last(q) == q[Len(q)]
SentBy(p) == LET By(e) == e.by = p IN SelectSeq(sent, By)

\* The events of q whose id is the integer t - 1 (none when t = 0).
FromPredecessor(q, t) == LET Wanted(e) == e.current_task_id = Some(t - 1) IN SelectSeq(q, Wanted)

\* What the gate of stage s has to satisfy: the admitted events are exactly
\* the received ones tagged t - 1, nothing is republished but for an admitted
\* event, and receiving an event that is not admitted does not end the stage.
GateHolds(s) ==
    /\ admitted[s] = FromPredecessor(received[s], current_task_id[s])
    /\ Len(SentBy(s)) <= Len(admitted[s])
    /\ pc[s] = "panicked" =>
          /\ admitted[s] # <<>>
          /\ Last(admitted[s]) = Last(received[s])

\* C1: every gated stage with task id t processes a received event iff the
\* event is tagged t - 1; an event with any other id, or with none, causes no
\* work, no side effect and no republish.
C1_OrderingGate == \A s \in Gated : GateHolds(s)

\* C1, for the stages built with an id of at least 1: the gate holds.
C1_GateFromOne == \A s \in Gated : current_task_id[s] >= 1 => GateHolds(s)

\* A stage with id >= 1 has admitted one event and ignored another.
C1_Witness ==
    \E s \in Gated :
        /\ current_task_id[s] >= 1
        /\ admitted[s] # <<>>
        /\ Len(received[s]) > Len(admitted[s])

\* C2: every event a stage with task id t has published carries
\* current_task_id = t, the source's emissions and the processor's
\* republished events alike (never the admitted event's t - 1).
C2_PublishedCarryOwnId ==
    \A i \in 1 .. Len(sent) :
        sent[i].by \in Stages =>
            sent[i].current_task_id = Some(current_task_id[sent[i].by])

\* The source has emitted and a processor with id >= 1 has republished.
C2_Witness ==
    /\ SentBy("file") # <<>>
    /\ SentBy("http") # <<>>
    /\ current_task_id["http"] >= 1

\* C7: a lag notification never ends a stage's receive loop.
C7_LagNeverEndsLoop == \A s \in Gated : exit[s] # "Lagged"

\* C8: what a subscriber has received is exactly the events published after it
\* subscribed, each once and in order, and none of the k published before; as
\* long as it has not lagged, the next such event is the one recv returns.
C8_Delivery ==
    \A s \in Gated :
        rx[s].state # "none" =>
            /\ rx[s].next = rx[s].sub + Len(received[s])
            /\ rx[s].next <= tail
            /\ received[s] = SubSeq(sent, rx[s].sub + 1, rx[s].next)
            /\ (rx[s].state = "live" /\ RecvKind(s) = "Ok") =>
                  RecvValue(s) = sent[rx[s].next + 1]

\* A stage that subscribed after k >= 1 publishes has received a later event.
C8_Witness == \E s \in Gated : rx[s].sub >= 1 /\ received[s] # <<>>

Ended(s) == pc[s] \in {"done", "failed", "send_error", "panicked"}
Looping(s) == pc[s] \in {"recv", "work"}

\* C12: subscribe, process or run of a stage has returned only when the
\* stage's work has ended; it has not returned while the loop is still
\* reading or publishing.
C12_ReturnsAfterWork == \A s \in Stages : opResult[s] # "none" => Ended(s)

\* C15, the siblings: a step in which a stage fails leaves every other stage
\* where it was, with its receiver.
C15_SiblingsUntouched ==
    [][\A s \in Stages :
          (~Ended(s) /\ pc'[s] \in {"failed", "send_error", "panicked"}) =>
              /\ \A o \in Stages \ {s} : pc'[o] = pc[o]
              /\ \A o \in Gated \ {s} : rx'[o] = rx[o]]_vars

\* C15: no stage is cancelled: the loop of a started stage ends only when it
\* has observed the closure of the channel or when the stage itself fails.
C15_NoForcedCancellation ==
    [][\A s \in Gated :
          (Looping(s) /\ ~Looping(s)') =>
              \/ pc'[s] \in {"failed", "send_error", "panicked"}
              \/ exit'[s] = "Closed"]_vars

(***************************************************************************)
(* jetstream::publisher::Builder::build                                    *)
(***************************************************************************)
Finished(b) == builder[b].pc \in {"idle", "ok", "err"}

\* A successful build is recorded in the history variables.
Recorded(b, after, op) ==
    LET desired == SetOf(builder[b].config.subjects)
        again == last.any /\ last.desired = desired
    IN /\ applied' = applied \cup desired
       /\ last' = [any |-> TRUE,
                   desired |-> desired,
                   after |-> SetOf(after.config.subjects),
                   via |-> op,
                   repeat |-> again,
                   prev_after |-> IF again THEN last.after ELSE {},
                   prev_via |-> IF again THEN last.via ELSE "none"]

\* A new build, of a Builder made with some configuration.
BuildStart(b) ==
    /\ Finished(b)
    /\ \E config \in Configs :
          builder' = [builder EXCEPT ![b] =
              [IdleBuilder EXCEPT !.config = config, !.start = stream, !.pc = "connect"]]
    /\ UNCHANGED <<stream, applied, last>>
    /\ UNCHANGED <<busVars, stageVars, flowVars, handlerVars, subVars, unitVars>>

\* The client is built and connected, which may fail, and may leave it with no
\* JetStream context; otherwise stream_config is assembled.
Connect(b) ==
    /\ builder[b].pc = "connect"
    /\ \/ \E error \in {"NatsClientAuth", "MissingNatsClient"} :
             builder' = [builder EXCEPT ![b].pc = "err", ![b].error = error]
       \/ builder' = [builder EXCEPT
             ![b].stream_config = StreamConfig(builder[b].config),
             ![b].pc = "get_stream"]
    /\ UNCHANGED <<stream, applied, last>>
    /\ UNCHANGED <<busVars, stageVars, flowVars, handlerVars, subVars, unitVars>>

\* jetstream.get_stream(..).await and the match on it: Ok(_) goes on to read
\* the subjects, Err(_), whatever the error, goes on to create the stream.
GetStream(b) ==
    /\ builder[b].pc = "get_stream"
    /\ \E outcome \in (IF stream.exists THEN {"found"} ELSE {"not_found"}) \cup {"failed"} :
          builder' = [builder EXCEPT
              ![b].lookup = outcome,
              ![b].pc = IF outcome = "found" THEN "info" ELSE "create"]
    /\ UNCHANGED <<stream, applied, last>>
    /\ UNCHANGED <<busVars, stageVars, flowVars, handlerVars, subVars, unitVars>>

\* stream.info().await: the request fails, or the stream's subjects are read,
\* extended by the configured ones, sorted, deduplicated and put in stream_config.
StreamInfo(b) ==
    /\ builder[b].pc = "info"
    /\ \/ builder' = [builder EXCEPT ![b].pc = "err", ![b].error = "NatsRequest"]
       \/ /\ stream.exists
          /\ builder' = [builder EXCEPT
                ![b].fetched = stream.config.subjects,
                ![b].stream_config.subjects =
                    Dedup(Sort(Extend(stream.config.subjects, builder[b].config.subjects))),
                ![b].pc = "update"]
    /\ UNCHANGED <<stream, applied, last>>
    /\ UNCHANGED <<busVars, stageVars, flowVars, handlerVars, subVars, unitVars>>

\* jetstream.update_stream(stream_config).await: the server replaces the
\* stream's configuration by the one sent, or the request fails.
UpdateStream(b) ==
    /\ builder[b].pc = "update"
    /\ LET call == [op |-> "update", config |-> builder[b].stream_config] IN
       \/ /\ stream.exists
          /\ stream' = Present(builder[b].stream_config)
          /\ builder' = [builder EXCEPT ![b].calls = Append(@, call), ![b].pc = "ok"]
          /\ Recorded(b, stream', "update")
       \/ /\ builder' = [builder EXCEPT ![b].calls = Append(@, call), ![b].pc = "err",
                                         ![b].error = "NatsCreateStream"]
          /\ UNCHANGED <<stream, applied, last>>
    /\ UNCHANGED <<busVars, stageVars, flowVars, handlerVars, subVars, unitVars>>

\* jetstream.create_stream(stream_config).await: the server creates a stream
\* that is absent and accepts a create that repeats the configuration of the
\* stream it has; it rejects any other, and the request may fail.
CreateStream(b) ==
    /\ builder[b].pc = "create"
    /\ LET call == [op |-> "create", config |-> builder[b].stream_config] IN
       \/ /\ ~stream.exists \/ stream.config = builder[b].stream_config
          /\ stream' = Present(builder[b].stream_config)
          /\ builder' = [builder EXCEPT ![b].calls = Append(@, call), ![b].pc = "ok"]
          /\ Recorded(b, stream', "create")
       \/ /\ builder' = [builder EXCEPT ![b].calls = Append(@, call), ![b].pc = "err",
                                         ![b].error = "NatsCreateStream"]
          /\ UNCHANGED <<stream, applied, last>>
    /\ UNCHANGED <<busVars, stageVars, flowVars, handlerVars, subVars, unitVars>>

InitRecon ==
    /\ stream \in InitialStreams
    /\ builder = [b \in Builders |-> IdleBuilder]
    /\ applied = {}
    /\ last = NoBuild
    /\ IdleBus
    /\ NotAssembled
    /\ IdleStages
    /\ IdleFlow
    /\ IdleHandlers
    /\ IdleSubscriber
    /\ IdleUnits

NextRecon ==
    \E b \in Builders :
        \/ BuildStart(b)
        \/ Connect(b)
        \/ GetStream(b)
        \/ StreamInfo(b)
        \/ UpdateStream(b)
        \/ CreateStream(b)

SpecRecon == InitRecon /\ [][NextRecon]_vars

(***************************************************************************)
(* Properties of the reconciliation                                        *)
(***************************************************************************)
\* The sorted, duplicate-free list of the subjects of T.
SortedSeq(T) ==
    CHOOSE q \in [1 .. Cardinality(T) -> T] :
        /\ SetOf(q) = T
        /\ \A i, j \in 1 .. Cardinality(T) : i < j => Rank(q[i]) < Rank(q[j])

RemoteSubjects == IF stream.exists THEN SetOf(stream.config.subjects) ELSE {}

\* C3: a build that finds the stream, with subjects S, issues no create and at
\* most one update, whose subject list is S \cup D sorted and without
\* duplicates; a build that succeeds issued exactly one, and the stream then
\* has these subjects.
C3_MergeOnPresent ==
    \A b \in Builders :
        LET r == builder[b]
            merged == SortedSeq(SetOf(r.start.config.subjects) \cup SetOf(r.config.subjects))
        IN r.lookup = "found" =>
              /\ Len(r.calls) <= 1
              /\ \A i \in 1 .. Len(r.calls) :
                    r.calls[i].op = "update" /\ r.calls[i].config.subjects = merged
              /\ r.pc = "update" => r.stream_config.subjects = merged
              /\ r.pc = "ok" => Len(r.calls) = 1 /\ stream.config.subjects = merged

\* The scenario S = {y}, D = {x}: the stream ends with <<x, y>>.
C3_Witness ==
    \E b \in Builders :
        /\ builder[b].pc = "ok" /\ builder[b].lookup = "found"
        /\ builder[b].start.config.subjects = <<"y">>
        /\ builder[b].config.subjects = <<"x">>
        /\ stream.config.subjects = <<"x", "y">>

\* C4: no step removes a subject from the stream, and the stream has every
\* subject that a successful build asked for.
C4_Monotonic ==
    [][/\ stream.exists => stream'.exists
       /\ RemoteSubjects \subseteq RemoteSubjects'
       /\ applied' \subseteq RemoteSubjects']_vars

\* Builds asking for two different subjects have succeeded on a stream that
\* had a third one.
C4_Witness == Cardinality(applied) = 2 /\ Cardinality(RemoteSubjects) = 3

\* C5: a successful build that asks for the same subjects as the successful
\* build before it leaves the stream with the subjects it had after that one.
C5_Idempotent == last.repeat => last.after = last.prev_after

\* The first of the two builds created the stream, the second updated it.
C5_Witness == last.repeat /\ last.prev_via = "create" /\ last.via = "update"

\* C6: a build whose lookup, create or update failed ends in an error and
\* leaves the stream as it was when the build began; a failed lookup is
\* followed by no create and no update, and by no Publisher.
C6_FailureAborts ==
    \A b \in Builders :
        /\ builder[b].lookup = "failed" =>
              builder[b].calls = <<>> /\ builder[b].pc # "ok"
        /\ builder[b].pc = "err" => stream = builder[b].start

\* The max_age a build with this configuration asks for.
WantedMaxAge(config) ==
    IF config.max_age = None THEN DefaultMaxAge ELSE config.max_age[1]

\* C17: a build whose lookup finds no stream issues no update and one create,
\* with the configured subjects, retention Limits, discard Old and max_age the
\* configured value, or one day when none is configured; when the build has
\* succeeded the stream has this configuration.
C17_CreateOnAbsent ==
    \A b \in Builders :
        LET r == builder[b] IN
        r.lookup = "not_found" =>
            /\ Len(r.calls) <= 1
            /\ r.pc \in {"ok", "err"} => Len(r.calls) = 1
            /\ \A i \in 1 .. Len(r.calls) :
                  /\ r.calls[i].op = "create"
                  /\ r.calls[i].config.subjects = r.config.subjects
                  /\ r.calls[i].config.retention = "Limits"
                  /\ r.calls[i].config.discard = "Old"
                  /\ r.calls[i].config.max_age = WantedMaxAge(r.config)
            /\ r.pc = "ok" => stream = Present(r.calls[1].config)

\* A build with no max_age configured has created the absent stream, which
\* keeps its messages for one day.
C17_Witness ==
    \E b \in Builders :
        /\ builder[b].pc = "ok" /\ builder[b].lookup = "not_found"
        /\ ~builder[b].start.exists
        /\ builder[b].config.max_age = None
        /\ stream.exists /\ stream.config.max_age = DefaultMaxAge

\* C18: a build that has updated the stream it found has left every field it
\* does not manage with the value the stream had.
C18_UnmanagedKept ==
    \A b \in Builders :
        (builder[b].pc = "ok" /\ builder[b].lookup = "found") =>
            /\ stream.config.rest = builder[b].start.config.rest
            /\ stream.config.max_messages_per_subject =
                   builder[b].start.config.max_messages_per_subject

(***************************************************************************)
(* Flow::init                                                              *)
(***************************************************************************)
\* init returns: tx and rx go out of scope with it.
Returns(result, error, task, why) ==
    /\ flow' = [flow EXCEPT !.pc = "returned", !.result = result, !.error = error,
                            !.task = task, !.exit = why]
    /\ rx' = [rx EXCEPT !["rx0"] = IF @.state = "live" THEN Dropped("rx0") ELSE @]
    /\ senders' = {}

\* A stage Flow::init has built: its place in the configuration and the task
\* id its builder was given, `Builder::new(config, &tx)` and
\* `Builder::new(config)` taking none.
Built(position) == [position |-> position, current_task_id |-> None]

\* The service is built and connected, then broadcast::channel(200) is made:
\* init keeps both the Sender and the Receiver it returns.
FlowService ==
    /\ flow.pc = "service"
    /\ \/ /\ Returns("Err", "FlowgenService", "none", "none")
          /\ UNCHANGED <<buffer, tail, sent>>
       \/ /\ flow' = [flow EXCEPT !.pc = "source"]
          /\ rx' = [rx EXCEPT !["rx0"] = Subscribed]
          /\ UNCHANGED <<buffer, tail, sent, senders>>
    /\ UNCHANGED <<stageVars, reconVars, handlerVars, subVars, unitVars>>

\* match config.flow.source: a file source is built and then awaited, the
\* other sources are built and kept; a build error is returned, but for the
\* JetStream source, whose build is unwrapped.
FlowSource ==
    /\ flow.pc = "source"
    /\ \/ /\ flow.source = "file"
          /\ \/ Returns("Err", "FlowgenFileSubscriberError", "none", "none")
             \/ /\ flow' = [flow EXCEPT !.pc = "source_run",
                                         !.built = Append(@, Built(0))]
                /\ senders' = senders \cup {"file"}
                /\ UNCHANGED rx
       \/ /\ flow.source = "salesforce_pubsub"
          /\ \/ Returns("Err", "FlowgenSalesforcePubSubSubscriberError", "none", "none")
             \/ /\ flow' = [flow EXCEPT !.pc = "target",
                                         !.built = Append(@, Built(0))]
                /\ UNCHANGED <<rx, senders>>
       \/ /\ flow.source = "nats_jetstream"
          /\ \/ Returns("panic", "none", "none", "none")
             \/ /\ flow' = [flow EXCEPT !.pc = "target",
                                         !.built = Append(@, Built(0))]
                /\ UNCHANGED <<rx, senders>>
       \/ /\ flow.source = "gcp_storage"
          /\ flow' = [flow EXCEPT !.pc = "target"]
          /\ UNCHANGED <<rx, senders>>
    /\ UNCHANGED <<buffer, tail, sent, stageVars, reconVars, handlerVars, subVars, unitVars>>

\* A task of the file source sends a FileMessage, which carries no task id.
FlowSourceSend ==
    /\ flow.pc = "source_run"
    /\ batches < MaxChunks
    /\ Send(None, "file")
    /\ batches' = batches + 1
    /\ UNCHANGED <<rx, senders, flow, reconVars, handlerVars, subVars, unitVars>>
    /\ UNCHANGED <<current_task_id, assembled, overflow_checks, pc, m, received,
                   admitted, exit, external, opResult>>

\* The joined tasks of the file source have ended: a task that panicked makes
\* the unwrap panic, anything else lets init go on to the target.
FlowSourceEnd ==
    /\ flow.pc = "source_run"
    /\ \/ Returns("panic", "none", "none", "none")
       \/ /\ flow' = [flow EXCEPT !.pc = "target"]
          /\ senders' = senders \ {"file"}
          /\ UNCHANGED rx
    /\ UNCHANGED <<buffer, tail, sent, stageVars, reconVars, handlerVars, subVars, unitVars>>

\* match config.flow.target: the JetStream publisher's build begins.
FlowTargetBuild ==
    /\ flow.pc = "target"
    /\ \E b \in Builders : builder[b].pc = "idle" /\ BuildStart(b)

\* The steps of the build that follow its start.
FlowTargetStep ==
    /\ flow.pc = "target"
    /\ \E b \in Builders :
          Connect(b) \/ GetStream(b) \/ StreamInfo(b) \/ UpdateStream(b) \/ CreateStream(b)

\* The build has ended: its error is returned, or receiver_task is spawned
\* with rx and the publisher and init awaits it.
FlowTargetBuilt ==
    /\ flow.pc = "target"
    /\ \E b \in Builders :
          \/ /\ builder[b].pc = "err"
             /\ Returns("Err", "FlowgenNatsJetStreamPublisher", "none", "none")
          \/ /\ builder[b].pc = "ok"
             /\ flow' = [flow EXCEPT !.pc = "forward", !.task = "running",
                                      !.built = Append(@, Built(1))]
             /\ UNCHANGED <<rx, senders>>
    /\ UNCHANGED <<buffer, tail, sent, stageVars, reconVars, handlerVars, subVars, unitVars>>

\* One turn of receiver_task's `while let Ok(message) = rx.recv().await`: the
\* message is encoded (unwrapped) and published to JetStream, which may fail; and
\* `let _ = receiver_task.await.map_err(Error::TokioJoin)?` once the task has
\* ended: a panic of the task is returned as TokioJoin, the Result the task
\* returned is dropped and init returns Ok(self).
FlowForward ==
    /\ flow.pc = "forward"
    /\ RecvKind("rx0") # "Empty"
    /\ IF RecvKind("rx0") = "Ok"
       THEN \/ /\ flow' = [flow EXCEPT !.published = Append(@, RecvValue("rx0").seq)]
               /\ rx' = [rx EXCEPT !["rx0"] = Advanced("rx0")]
               /\ UNCHANGED senders
            \/ Returns("Err", "TokioJoin", "panic", "none")
            \/ Returns("Ok", "none", "Err", "none")
       ELSE Returns("Ok", "none", "Ok", RecvKind("rx0"))
    /\ UNCHANGED <<buffer, tail, sent, stageVars, reconVars, handlerVars, subVars, unitVars>>

InitFlow ==
    /\ \E k \in SourceKinds : flow = NewFlow(k)
    /\ stream \in InitialStreams
    /\ builder = [b \in Builders |-> IdleBuilder]
    /\ applied = {}
    /\ last = NoBuild
    /\ IdleBus
    /\ NotAssembled
    /\ IdleStages
    /\ IdleHandlers
    /\ IdleSubscriber
    /\ IdleUnits

NextFlow ==
    \/ FlowService \/ FlowSource \/ FlowSourceSend \/ FlowSourceEnd
    \/ FlowTargetBuild \/ FlowTargetStep \/ FlowTargetBuilt \/ FlowForward

SpecFlow == InitFlow /\ [][NextFlow]_vars

(***************************************************************************)
(* Properties of the orchestration                                         *)
(***************************************************************************)
\* C10: when a stage's run has ended with an error, what the orchestrator
\* reports is a failure: the error is not dropped in favour of a success.
C10_StageErrorReported == flow.task = "Err" => flow.result = "Err"

\* C10, for the stage operations: a stage whose task has ended with an error
\* has not reported success from subscribe, process or run.
C10_StageOperationReports ==
    \A s \in Stages : pc[s] \in {"failed", "send_error"} => opResult[s] = "Err"

\* C11: the target accepts the events of the source in the order they were
\* sent, none twice, and when its loop has ended without an error it has
\* accepted every event the source sent.
C11_EndToEnd ==
    /\ Len(flow.published) <= Len(sent)
    /\ \A i \in 1 .. Len(flow.published) : flow.published[i] = sent[i].seq
    /\ flow.task = "Ok" => Len(flow.published) = Len(sent)

\* The errors Flow::init returns from building the service, the source and
\* the target.
StartupErrors ==
    {"FlowgenService", "FlowgenFileSubscriberError",
     "FlowgenSalesforcePubSubSubscriberError", "FlowgenNatsJetStreamPublisher"}

\* C13: when startup has failed no stage has published or consumed an event.
C13_FailFast ==
    (flow.pc = "returned" /\ flow.error \in StartupErrors) =>
        sent = <<>> /\ flow.published = <<>>

\* C14: the start of a stage does not wait for another stage to finish: while
\* the source is running the target can be started.
C14_ConcurrentStart == flow.pc = "source_run" => ENABLED FlowTargetBuild

\* The lifecycle of the orchestrator, read off Flow::init: a stage is running,
\* init has returned, or the flow is still being put together.
StageRuns == flow.pc \in {"source_run", "forward"}
AllAssembled ==
    /\ rx["rx0"].state # "none"
    /\ \E b \in Builders : builder[b].pc = "ok"
Lifecycle ==
    IF flow.pc = "returned"
    THEN (IF flow.result = "Ok" THEN "Completed" ELSE "Failed")
    ELSE IF StageRuns THEN "Running"
    ELSE "Unconfigured"
LifecycleRank(l) ==
    CASE l = "Unconfigured" -> 0
      [] l = "Running" -> 2
      [] l \in {"Completed", "Failed"} -> 3

\* C16: the lifecycle only moves forward, Completed and Failed are terminal,
\* and no stage runs before the bus and every stage have been assembled.
C16_Lifecycle ==
    [][/\ LifecycleRank(Lifecycle') >= LifecycleRank(Lifecycle)
       /\ LifecycleRank(Lifecycle) = 3 => flow' = flow
       /\ StageRuns' => AllAssembled']_vars

(***************************************************************************)
(* object_store::writer: Writer::run and EventHandler::handle              *)
(***************************************************************************)
\* The events recv may return to the writer: the tag, the optional id and the
\* data variant, an Avro payload being one that decodes or one that does not.
WriterEvents ==
    [current_task_id : {None, Some(0)},
     id : {None, Some("a")},
     data : {"ArrowRecordBatch", "Avro", "AvroInvalid"}]

\* format!("{timestamp}"): the decimal digits of the clock's reading.
Digits == <<"0", "1", "2", "3", "4", "5", "6", "7", "8", "9">>
RECURSIVE Format(_)
Format(n) == IF n < 10 THEN Digits[n + 1] ELSE Format(n \div 10) \o Digits[(n % 10) + 1]

\* `match event.id`: the id when there is one, else the timestamp.
Filename(e) == IF e.id # None THEN e.id[1] ELSE Format(now)

\* format!("{}/{}/{}.avro", self.path, date, filename), with the day of `now`.
AvroPath(name) == <<"path", "date", name \o ".avro">>

NewHandler(e) == [event |-> e, pc |-> "spawned", filename |-> None, error |-> "none"]

\* The handler that holds the Mutex of the object store.
Holders == {h \in 1 .. Len(handlers) : handlers[h].pc = "put"}

\* A lock that is granted whoever holds it.
LockFreeAlways == TRUE

\* `self.object_store.lock().await` goes through only while no guard is alive.
LockFree == Holders = {}

\* A write that has taken effect, by handler h.
Write(h, to, name) == written' = Append(written, [h |-> h, to |-> to, name |-> name])

\* Writer::run up to its loop: the path, the url and the store's options are
\* parsed, each failure returning the error.
RunStart ==
    /\ run.pc = "init"
    /\ \/ run' = [run EXCEPT !.pc = "recv"]
       \/ run' = [run EXCEPT !.pc = "failed", !.result = "Err"]
    /\ UNCHANGED <<handlers, lockq, written, now>>
    /\ UNCHANGED <<busVars, stageVars, reconVars, flowVars, subVars, unitVars>>

\* One turn of the loop on an event recv returned: the gate, and for an
\* admitted event an EventHandler spawned with a clone of the store.
RunRecv ==
    /\ run.pc = "recv"
    /\ run.got < MaxEvents
    /\ \E e \in WriterEvents :
          IF SubPanics(current_task_id["writer"])
          THEN /\ run' = [run EXCEPT !.pc = "panicked", !.got = @ + 1]
               /\ UNCHANGED handlers
          ELSE /\ run' = [run EXCEPT !.got = @ + 1]
               /\ IF Admits(current_task_id["writer"], e)
                  THEN handlers' = Append(handlers, NewHandler(e))
                  ELSE UNCHANGED handlers
    /\ UNCHANGED <<lockq, written, now>>
    /\ UNCHANGED <<busVars, stageVars, reconVars, flowVars, subVars, unitVars>>

\* recv returned an error: the loop ends and run returns Ok(()); the handlers
\* it spawned are detached and go on.
RunEnd ==
    /\ run.pc = "recv"
    /\ run' = [run EXCEPT !.pc = "done", !.result = "Ok"]
    /\ UNCHANGED <<handlers, lockq, written, now>>
    /\ UNCHANGED <<busVars, stageVars, reconVars, flowVars, subVars, unitVars>>

\* EventHandler::handle up to its first await: the filename; for a record
\* batch the CSV file is created and written in the working directory; for
\* Avro the datum is decoded and encoded again and the store's lock is
\* requested, which is granted at once when it is free and nobody waits.
HandleStart(h) ==
    /\ handlers[h].pc = "spawned"
    /\ LET e == handlers[h].event
           name == Filename(e)
       IN CASE e.data = "ArrowRecordBatch" ->
                 /\ \/ /\ handlers' = [handlers EXCEPT ![h].pc = "done",
                                                       ![h].filename = Some(name)]
                       /\ Write(h, "local", <<name>>)
                    \/ /\ \E error \in {"IO", "Arrow"} :
                             handlers' = [handlers EXCEPT ![h].pc = "failed",
                                                          ![h].filename = Some(name),
                                                          ![h].error = error]
                       /\ UNCHANGED written
                 /\ UNCHANGED lockq
            [] e.data = "AvroInvalid" ->
                 /\ handlers' = [handlers EXCEPT ![h].pc = "failed",
                                                 ![h].filename = Some(name),
                                                 ![h].error = "Avro"]
                 /\ UNCHANGED <<lockq, written>>
            [] e.data = "Avro" ->
                 /\ IF LockFree /\ lockq = <<>>
                    THEN /\ handlers' = [handlers EXCEPT ![h].pc = "put",
                                                         ![h].filename = Some(name)]
                         /\ UNCHANGED lockq
                    ELSE /\ handlers' = [handlers EXCEPT ![h].pc = "lock",
                                                         ![h].filename = Some(name)]
                         /\ lockq' = Append(lockq, h)
                 /\ UNCHANGED written
    /\ UNCHANGED <<run, now>>
    /\ UNCHANGED <<busVars, stageVars, reconVars, flowVars, subVars, unitVars>>

\* The Mutex is released to the handler that has waited longest.
HandleLock(h) ==
    /\ handlers[h].pc = "lock"
    /\ LockFree
    /\ lockq # <<>> /\ Head(lockq) = h
    /\ lockq' = Tail(lockq)
    /\ handlers' = [handlers EXCEPT ![h].pc = "put"]
    /\ UNCHANGED <<run, written, now>>
    /\ UNCHANGED <<busVars, stageVars, reconVars, flowVars, subVars, unitVars>>

\* put(&path, payload).await under the lock: the object is stored or the store
\* reports an error; the guard is dropped either way.
HandlePut(h) ==
    /\ handlers[h].pc = "put"
    /\ \/ /\ handlers' = [handlers EXCEPT ![h].pc = "done"]
          /\ Write(h, "store", AvroPath(handlers[h].filename[1]))
       \/ /\ handlers' = [handlers EXCEPT ![h].pc = "failed", ![h].error = "ObjectStore"]
          /\ UNCHANGED written
    /\ UNCHANGED <<run, lockq, now>>
    /\ UNCHANGED <<busVars, stageVars, reconVars, flowVars, subVars, unitVars>>

\* A microsecond passes.
Tick ==
    /\ now < MaxTicks
    /\ now' = now + 1
    /\ UNCHANGED <<run, handlers, lockq, written>>
    /\ UNCHANGED <<busVars, stageVars, reconVars, flowVars, subVars, unitVars>>

\* A writer built with some task id, in a build with or without overflow checks.
InitWriter ==
    /\ IdleHandlers
    /\ IdleBus
    /\ rx = [r \in Receivers |-> NoReceiver]
    /\ \E t \in 0 .. 1 :
          current_task_id = [s \in Stages |-> IF s = "writer" THEN t ELSE 0]
    /\ overflow_checks \in BOOLEAN
    /\ IdleStages
    /\ IdleRecon
    /\ IdleFlow
    /\ IdleSubscriber
    /\ IdleUnits

NextWriter ==
    \/ RunStart \/ RunRecv \/ RunEnd \/ Tick
    \/ \E h \in 1 .. Len(handlers) :
          \/ HandleStart(h)
          \/ HandleLock(h)
          \/ HandlePut(h)

SpecWriter == InitWriter /\ [][NextWriter]_vars

\* C19: within a stage the outputs take effect in the order of admission: no
\* write of a later-admitted event comes before that of an earlier one.
C19_AdmissionOrder ==
    \A i, j \in 1 .. Len(written) : i < j => written[i].h < written[j].h

(***************************************************************************)
(* nats::jetstream::subscriber: Subscriber::subscribe                      *)
(***************************************************************************)
\* What the consumer's stream yields: an error, or a message whose payload is
\* serialized Avro data, an Arrow stream, or neither.
Payloads == {"avro", "arrow", "neither"}
Items == {[ok |-> FALSE, subject |-> "none", payload |-> "none"]}
         \cup [ok : {TRUE}, subject : {"orders", "audit"}, payload : Payloads]

\* NatsMessageExt::to_event: the builder is given the subject and the decoded
\* data and no task id; a payload that is neither Avro nor Arrow is an error.
ToEventOk(message) == message.payload \in {"avro", "arrow"}
ToEvent(message) ==
    [subject |-> message.subject,
     data |-> IF message.payload = "avro" THEN "Avro" ELSE "ArrowRecordBatch",
     current_task_id |-> None]

\* The task of subscribe has ended with outcome `task` (and error, if one):
\* try_join_all's result is dropped and subscribe returns Ok(()).
SubReturns(task, error) ==
    subscriber' = [subscriber EXCEPT !.pc = "returned", !.task = task, !.error = error,
                                     !.result = "Ok"]

\* The client is built and connected: an error is returned; without a
\* JetStream context no task is spawned; otherwise the task is spawned.
SubConnect ==
    /\ subscriber.pc = "init"
    /\ \/ subscriber' = [subscriber EXCEPT !.pc = "returned", !.result = "Err"]
       \/ SubReturns("none", "none")
       \/ subscriber' = [subscriber EXCEPT !.pc = "consumer"]
    /\ UNCHANGED emitted
    /\ UNCHANGED <<busVars, stageVars, reconVars, flowVars, handlerVars, unitVars>>

\* get_stream, get_or_create_consumer and messages, each unwrapped: a failure
\* panics the task; then the stream of messages is cut to batch_size items.
SubConsumer ==
    /\ subscriber.pc = "consumer"
    /\ \/ SubReturns("panic", "none")
       \/ subscriber' = [subscriber EXCEPT !.pc = "loop"]
    /\ UNCHANGED emitted
    /\ UNCHANGED <<busVars, stageVars, reconVars, flowVars, handlerVars, unitVars>>

\* A stream that never ends.
TakeOpenAlways == TRUE

\* `.take(self.config.batch_size)`: the stream yields while fewer than
\* batch_size items have come out of it.
TakeOpen == subscriber.taken < subscriber.batch_size

\* One turn of `while let Some(message) = messages.next().await`: an item that
\* is an error is passed over; a message is turned into an event, the event's
\* current_task_id is assigned and the event is sent.
SubMessage ==
    /\ subscriber.pc = "loop"
    /\ TakeOpen
    /\ \E item \in Items :
          IF ~item.ok
          THEN /\ subscriber' = [subscriber EXCEPT !.taken = @ + 1, !.skipped = @ + 1,
                                                   !.delivered = Append(@, item)]
               /\ UNCHANGED <<emitted, buffer, tail, sent>>
          ELSE IF ~ToEventOk(item)
          THEN /\ subscriber' = [subscriber EXCEPT
                                    !.pc = "returned", !.task = "Err",
                                    !.error = "NatsJetStreamMessage", !.result = "Ok",
                                    !.delivered = Append(@, item)]
               /\ UNCHANGED <<emitted, buffer, tail, sent>>
          ELSE LET built == ToEvent(item)
                   e == [built EXCEPT !.current_task_id = Some(subscriber.current_task_id)]
               IN IF CanSend
                  THEN /\ Send(e.current_task_id, "nats")
                       /\ emitted' = Append(emitted, [built |-> built, sent |-> e])
                       /\ subscriber' = [subscriber EXCEPT !.taken = @ + 1,
                                                           !.delivered = Append(@, item)]
                  ELSE /\ subscriber' = [subscriber EXCEPT
                                            !.pc = "returned", !.task = "Err",
                                            !.error = "SendMessage", !.result = "Ok",
                                            !.delivered = Append(@, item)]
                       /\ UNCHANGED <<emitted, buffer, tail, sent>>
    /\ UNCHANGED <<rx, senders>>
    /\ UNCHANGED <<stageVars, reconVars, flowVars, handlerVars, unitVars>>

\* The stream has yielded batch_size items: the task returns Ok(()).
SubEnd ==
    /\ subscriber.pc = "loop"
    /\ subscriber.taken = subscriber.batch_size
    /\ SubReturns("Ok", "none")
    /\ UNCHANGED emitted
    /\ UNCHANGED <<busVars, stageVars, reconVars, flowVars, handlerVars, unitVars>>

\* A subscriber built with some task id and batch_size, on a channel whose
\* receiver is alive or gone.
InitSub ==
    /\ \E t \in 0 .. 1, n \in 0 .. MaxBatchSize :
          subscriber = [IdleSub EXCEPT !.current_task_id = t, !.batch_size = n]
    /\ emitted = <<>>
    /\ IdleBus
    /\ \E rx0 \in {"live", "dropped"} :
          rx = [r \in Receivers |->
                  IF r = "rx0" THEN [NoReceiver EXCEPT !.state = rx0] ELSE NoReceiver]
    /\ current_task_id = [s \in Stages |-> 0]
    /\ overflow_checks = FALSE
    /\ IdleStages
    /\ IdleRecon
    /\ IdleFlow
    /\ IdleHandlers
    /\ IdleUnits

NextSub == SubConnect \/ SubConsumer \/ SubMessage \/ SubEnd

SpecSub == InitSub /\ [][NextSub]_vars

\* C20: an event is sent as build returned it: current_task_id is set when the
\* event is constructed and no field is assigned afterwards.
C20_Immutable ==
    \A i \in 1 .. Len(emitted) : emitted[i].sent = emitted[i].built

(***************************************************************************)
(* flowgen_core::event::EventBuilder                                       *)
(***************************************************************************)
\* What the callers give the builder: the data variants, subjects and ids.
EventDatas == {"ArrowRecordBatch", "Avro", "Json"}
EventSubjects == {"http.respone.out", "generate"}
TaskIds == 0 .. UsizeMax

\* A build that leaves the task id out of the event.
EventBuilder_buildNoTaskId(b) ==
    IF b.data = None \/ b.subject = None
    THEN Err("MissingRequiredAttribute")
    ELSE Ok([data |-> b.data[1], subject |-> b.subject[1], current_task_id |-> None])

\* build(): an error when data or subject is unset, else the event holding
\* what was set.
EventBuilder_build(b) ==
    IF b.data = None \/ b.subject = None
    THEN Err("MissingRequiredAttribute")
    ELSE Ok([data |-> b.data[1], subject |-> b.subject[1],
             current_task_id |-> b.current_task_id])

\* .data(d), .subject(s) and .current_task_id(t): each sets its field.
EventBuilder_data ==
    /\ event_builder.pc = "new"
    /\ \E d \in EventDatas : event_builder' = [event_builder EXCEPT !.data = Some(d)]
    /\ UNCHANGED event_result
    /\ UNCHANGED <<pipelineVars, cacheVars, clientVars, contextVars, serviceVars>>

EventBuilder_subject ==
    /\ event_builder.pc = "new"
    /\ \E subject \in EventSubjects :
          event_builder' = [event_builder EXCEPT !.subject = Some(subject)]
    /\ UNCHANGED event_result
    /\ UNCHANGED <<pipelineVars, cacheVars, clientVars, contextVars, serviceVars>>

EventBuilder_current_task_id ==
    /\ event_builder.pc = "new"
    /\ \E t \in TaskIds :
          event_builder' = [event_builder EXCEPT !.current_task_id = Some(t)]
    /\ UNCHANGED event_result
    /\ UNCHANGED <<pipelineVars, cacheVars, clientVars, contextVars, serviceVars>>

\* .build() consumes the builder.
EventBuilder_consume ==
    /\ event_builder.pc = "new"
    /\ event_builder' = [event_builder EXCEPT !.pc = "built"]
    /\ event_result' = EventBuilder_build(event_builder)
    /\ UNCHANGED <<pipelineVars, cacheVars, clientVars, contextVars, serviceVars>>

InitEvent ==
    /\ IdleEvent
    /\ IdleBus /\ NotAssembled /\ IdleStages /\ IdleRecon /\ IdleFlow
    /\ IdleHandlers /\ IdleSubscriber
    /\ IdleCache /\ IdleClient /\ IdleContext /\ IdleServices

NextEvent ==
    \/ EventBuilder_data
    \/ EventBuilder_subject
    \/ EventBuilder_current_task_id
    \/ EventBuilder_consume

SpecEvent == InitEvent /\ [][NextEvent]_vars

\* C21: build succeeds iff data and subject have both been set; the event it
\* returns has the data, the subject and the task id given, the task id absent
\* when none was given; a failed build returns no event.
C21_BuildIff ==
    event_result.returned =>
        /\ event_result.ok <=> (event_builder.data # None /\ event_builder.subject # None)
        /\ event_result.ok =>
              /\ Some(event_result.value[1].data) = event_builder.data
              /\ Some(event_result.value[1].subject) = event_builder.subject
              /\ event_result.value[1].current_task_id = event_builder.current_task_id
        /\ ~event_result.ok => event_result.value = None

\* An event has been built with a task id, and one without.
C21_Witness ==
    /\ event_result.ok
    /\ event_result.value[1].current_task_id = Some(UsizeMax)
    /\ event_result.value[1].data = "Json"

(***************************************************************************)
(* nats::cache::Cache                                                      *)
(***************************************************************************)
\* `history: 10` of the kv::Config that init creates the bucket with.
DefaultHistory == 10

\* The bucket as the server makes it.
NewBucket(history) ==
    [exists |-> TRUE, history |-> history, entries |-> [k \in Keys |-> None], created |-> 1]

\* The buckets init may find: none, one an earlier init made, a foreign one.
InitialBuckets ==
    {NoBucket}
    \cup {[exists |-> TRUE, history |-> h, entries |-> e, created |-> 0] :
            h \in {DefaultHistory, 5},
            e \in {[k \in Keys |-> None], [k \in Keys |-> IF k = "k1" THEN Some("v0") ELSE None]}}

\* A server whose create replaces the bucket it already has.
CreateKeyValueAnew(b, history) == NewBucket(history)

\* The server's create_key_value: an absent bucket is made; a present one is
\* left as it is (the request is accepted when the configuration is the same).
CreateKeyValue(b, history) == IF b.exists THEN b ELSE NewBucket(history)
CreateAccepted(b, history) == ~b.exists \/ b.history = history

\* The cases of get and what each returns.
GetCase(c, b, k, reachable) ==
    IF c.store = None THEN "no_store"
    ELSE IF ~reachable THEN "unreachable"
    ELSE IF b.entries[k] = None THEN "absent"
    ELSE "present"

GetError(case) ==
    CASE case = "no_store" -> "MissingDeltaTable"
      [] case = "unreachable" -> "CacheEntry"
      [] case = "absent" -> "MissingDeltaTable"

\* Cache::init, the client: build and connect fail with NatsClientAuth, and
\* `client.jetstream.unwrap()` panics when there is no JetStream context.
CacheInit ==
    /\ cache.pc = "built"
    /\ cache.inits < MaxInits
    /\ \/ cache' = [cache EXCEPT !.pc = "gone"]
       \/ cache' = [cache EXCEPT !.pc = "panicked"]
       \/ cache' = [cache EXCEPT !.pc = "lookup", !.lookup = "none"]
    /\ UNCHANGED <<bucket, cache_log>>
    /\ UNCHANGED <<pipelineVars, eventVars, clientVars, contextVars, serviceVars>>

\* get_key_value(bucket): Ok(store) attaches, Err(_) goes on to create.
CacheLookup ==
    /\ cache.pc = "lookup"
    /\ \/ /\ bucket.exists
          /\ cache' = [cache EXCEPT !.pc = "built", !.store = Some("kv"),
                                    !.lookup = "found", !.inits = @ + 1]
       \/ \E why \in (IF bucket.exists THEN {} ELSE {"not_found"}) \cup {"failed"} :
             cache' = [cache EXCEPT !.pc = "create", !.lookup = why]
    /\ UNCHANGED <<bucket, cache_log>>
    /\ UNCHANGED <<pipelineVars, eventVars, clientVars, contextVars, serviceVars>>

\* create_key_value(..).await.unwrap(): the store is attached, or init panics.
CacheCreate ==
    /\ cache.pc = "create"
    /\ \/ /\ CreateAccepted(bucket, DefaultHistory)
          /\ bucket' = CreateKeyValue(bucket, DefaultHistory)
          /\ cache' = [cache EXCEPT !.pc = "built", !.store = Some("kv"), !.inits = @ + 1]
       \/ /\ cache' = [cache EXCEPT !.pc = "panicked"]
          /\ UNCHANGED bucket
    /\ UNCHANGED cache_log
    /\ UNCHANGED <<pipelineVars, eventVars, clientVars, contextVars, serviceVars>>

\* Cache::put: with a store the value is put, a failure panicking; with no
\* store nothing is done; Ok(()) is returned either way.
CachePut ==
    /\ cache.pc = "built"
    /\ \E k \in Keys, v \in CacheValues :
          IF cache.store = None
          THEN /\ cache_log' = [NoCacheLog EXCEPT
                                    !.put = [cache_log.put EXCEPT ![k] = Some(v)],
                                    !.stored = [cache_log.stored EXCEPT ![k] = FALSE],
                                    !.epoch = [cache_log.epoch EXCEPT ![k] = cache.inits]]
               /\ UNCHANGED <<bucket, cache>>
          ELSE \/ /\ bucket' = [bucket EXCEPT !.entries[k] = Some(v)]
                  /\ cache_log' = [NoCacheLog EXCEPT
                                       !.put = [cache_log.put EXCEPT ![k] = Some(v)],
                                       !.stored = [cache_log.stored EXCEPT ![k] = TRUE],
                                       !.epoch = [cache_log.epoch EXCEPT ![k] = cache.inits]]
                  /\ UNCHANGED cache
               \/ /\ cache' = [cache EXCEPT !.pc = "panicked"]
                  /\ UNCHANGED <<bucket, cache_log>>
    /\ UNCHANGED <<pipelineVars, eventVars, clientVars, contextVars, serviceVars>>

\* Cache::get: no store, a failed request and an absent key are errors; else
\* the bytes of the entry.
CacheGet ==
    /\ cache.pc = "built"
    /\ \E k \in Keys, reachable \in BOOLEAN :
          LET case == GetCase(cache, bucket, k, reachable) IN
          cache_log' = [cache_log EXCEPT
              !.key = k, !.case = case,
              !.get = IF case = "present" THEN Ok(bucket.entries[k][1])
                      ELSE Err(GetError(case))]
    /\ UNCHANGED <<bucket, cache>>
    /\ UNCHANGED <<pipelineVars, eventVars, clientVars, contextVars, serviceVars>>

InitCache ==
    /\ bucket \in InitialBuckets
    /\ cache = NewCache
    /\ cache_log = NoCacheLog
    /\ IdleBus /\ NotAssembled /\ IdleStages /\ IdleRecon /\ IdleFlow
    /\ IdleHandlers /\ IdleSubscriber
    /\ IdleEvent /\ IdleClient /\ IdleContext /\ IdleServices

NextCache == CacheInit \/ CacheLookup \/ CacheCreate \/ CachePut \/ CacheGet

SpecCache == InitCache /\ [][NextCache]_vars

\* The latest get was of a key for which a put has returned Ok.
GetAfterPut == cache_log.get.returned /\ cache_log.put[cache_log.key] # None

C22_RoundTripStored ==
    (GetAfterPut /\ cache_log.stored[cache_log.key]) =>
        \/ cache_log.case = "unreachable"
        \/ cache_log.get = Ok(cache_log.put[cache_log.key][1])

C24_InitIdempotent ==
    [][/\ bucket.exists =>
             /\ bucket'.exists
             /\ bucket'.history = bucket.history
             /\ bucket'.created = bucket.created
       /\ (bucket.exists /\ cache.pc \in {"built", "lookup", "create"} /\ cache'.pc # cache.pc) =>
             bucket' = bucket
       /\ (~bucket.exists /\ bucket'.exists) =>
             cache.pc = "create" /\ bucket' = NewBucket(DefaultHistory)
       /\ cache'.store # None => bucket'.exists
       /\ \A k \in Keys :
             cache_log'.stored[k] =>
                 /\ bucket'.entries[k] = cache_log'.put[k]
                 /\ (cache_log'.case = "present" /\ cache_log'.key = k) =>
                        cache_log'.get = Ok(cache_log'.put[k][1])]_vars

\* The first init created the bucket, a value was put, a second init attached
\* to the bucket, and a get has returned the value.
C24_Witness ==
    /\ cache.inits = 2 /\ cache.lookup = "found"
    /\ bucket.created = 1
    /\ \E k \in Keys :
          /\ cache_log.stored[k] /\ cache_log.epoch[k] = 1
          /\ cache_log.key = k /\ cache_log.get.ok

\* C25: a payload that cannot be decoded fails only its event: it does not
\* end the stage's loop.
C25_CodecNotFatal == subscriber.error # "NatsJetStreamMessage"

\* C25, for the object-store writer: a handler that fails, on a payload that
\* does not decode or otherwise, leaves the receive loop where it was.
C25_WriterGoesOn ==
    [][(\E h \in 1 .. Len(handlers) :
           handlers[h].pc # "failed" /\ handlers'[h].pc = "failed") => run' = run]_vars

(***************************************************************************)
(* A publish with no active subscriber                                     *)
(***************************************************************************)

\* A step in which stage s gets as far as publishing: the file source has
\* taken a batch off its reader, the processor has got its response.
PublishTurn(s) ==
    \/ s = "file" /\ pc[s] = "read" /\ batches' # batches
    \/ s = "http" /\ pc[s] = "work" /\ pc'[s] \notin {"work", "panicked"}

\* C26: a publish made while the channel has no live receiver queues
\* nothing and ends the publishing stage with the send error; a stage that
\* has ended so stays ended and no event of it is sent afterwards.
C26_SendFailureFatal ==
    [][\A s \in Stages :
          /\ (~CanSend /\ PublishTurn(s)) =>
                 pc'[s] = "send_error" /\ sent' = sent
          /\ pc[s] = "send_error" =>
                 pc'[s] = "send_error" /\ SentBy(s)' = SentBy(s)]_vars

\* The file source has published with every receiver gone, after an
\* earlier stage of the flow was started and lost its receiver.
C26_Witness ==
    /\ pc["file"] = "send_error"
    /\ "file" \notin senders
    /\ LiveRx = {}

(***************************************************************************)
(* The lock around the writer's store handle                               *)
(***************************************************************************)

\* A writer that is second in its flow: with id 0 the gate admits no event
\* and no handler is ever spawned.
InitLock ==
    /\ InitWriter
    /\ current_task_id["writer"] = 1
    /\ ~overflow_checks

\* The tokio runtime keeps polling a handler that can go on, and a put on the
\* store returns.
FairSpecWriter ==
    /\ InitLock /\ [][NextWriter]_vars
    /\ \A h \in 1 .. MaxEvents :
          /\ WF_vars(h <= Len(handlers) /\ HandleLock(h))
          /\ WF_vars(h <= Len(handlers) /\ HandlePut(h))

\* C27: at most one handler holds the store's lock, so at most one put runs
\* at a time, and a handler that waits for the lock gets it, whatever the
\* receive loop does meanwhile.
C27_Lock ==
    /\ [](Cardinality(Holders) <= 1)
    /\ \A h \in 1 .. MaxEvents :
          (Len(handlers) >= h /\ handlers[h].pc = "lock")
              ~> (Len(handlers) >= h /\ handlers[h].pc = "put")

\* One handler is inside its put while another waits for the lock and the
\* receive loop is still on.
C27_Witness ==
    /\ run.pc = "recv"
    /\ \E h, w \in 1 .. Len(handlers) :
          handlers[h].pc = "put" /\ handlers[w].pc = "lock" /\ lockq = <<w>>

(***************************************************************************)
(* Task ids at assembly                                                    *)
(***************************************************************************)

\* C28: every stage the orchestrator has built was built with the task id
\* equal to its 0-based place in the configured list, the source first.
C28_IdsArePositions ==
    \A i \in 1 .. Len(flow.built) :
        flow.built[i].current_task_id = Some(flow.built[i].position)

(***************************************************************************)
(* object_store::client: ClientBuilder and Client::connect                 *)
(***************************************************************************)
\* The paths a client is configured with: two bucket urls, a url of a scheme
\* the object_store crate does not know, a path that is no url, and a path
\* that is not valid UTF-8.
NonUtf8Path == "\\xff"
ClientPaths ==
    {"gs://bucket/prefix", "s3://bucket/prefix", "ftp://host/dir", "relative/path",
     NonUtf8Path}
CredentialPaths == {"sa.json"}
OptionMaps == {{}, {<<"google_service_account", "other.json">>}}

\* PathBuf::to_str: None unless the path is valid UTF-8.
ToStr(path) == IF path = NonUtf8Path THEN None ELSE Some(path)

\* Url::parse: the parts of an absolute url, None for anything else.
UrlParse(str) ==
    CASE str = "gs://bucket/prefix" -> Some([scheme |-> "gs", host |-> "bucket", path |-> "prefix"])
      [] str = "s3://bucket/prefix" -> Some([scheme |-> "s3", host |-> "bucket", path |-> "prefix"])
      [] str = "ftp://host/dir" -> Some([scheme |-> "ftp", host |-> "host", path |-> "dir"])
      [] OTHER -> None

\* The schemes parse_url_opts has a store for.
StoreSchemes == {"gs", "s3"}

\* parse_opts: the configured options, or an empty map, and the credentials
\* inserted under "google_service_account", replacing an option of that key.
ParseOpts(c) ==
    LET options == IF c.options = None THEN {} ELSE c.options[1] IN
    IF c.credentials = None THEN options
    ELSE {o \in options : o[1] # "google_service_account"}
             \cup {<<"google_service_account", c.credentials[1]>>}

\* Context { object_store, path } made of the url and the options.
NewContext(c, url) ==
    [object_store |-> [scheme |-> url.scheme, host |-> url.host, opts |-> ParseOpts(c)],
     path |-> url.path]

\* A connect that returns the client as it was given.
ConnectedNoContext(c, url) == c

\* `self.context = Some(context); Ok(self)`.
Connected(c, url) == [c EXCEPT !.context = Some(NewContext(c, url))]

\* What connect may return for client c: the first failing step's error, or
\* the client with its context; the store's builder may refuse the options.
Connect_client(c) ==
    IF ToStr(c.path) = None THEN {Err("EmptyPath")}
    ELSE LET url == UrlParse(ToStr(c.path)[1]) IN
         IF url = None THEN {Err("ParseUrl")}
         ELSE IF url[1].scheme \notin StoreSchemes THEN {Err("ObjectStore")}
         ELSE {Ok(Connected(c, url[1])), Err("ObjectStore")}

\* ClientBuilder::path, credentials and options: each sets its field.
ClientBuilder_path ==
    /\ client_builder.pc = "new"
    /\ \E path \in ClientPaths :
          client_builder' = [client_builder EXCEPT !.path = Some(path)]
    /\ UNCHANGED <<client, connect_result>>
    /\ UNCHANGED <<pipelineVars, eventVars, cacheVars, contextVars, serviceVars>>

ClientBuilder_credentials ==
    /\ client_builder.pc = "new"
    /\ \E credentials \in CredentialPaths :
          client_builder' = [client_builder EXCEPT !.credentials = Some(credentials)]
    /\ UNCHANGED <<client, connect_result>>
    /\ UNCHANGED <<pipelineVars, eventVars, cacheVars, contextVars, serviceVars>>

ClientBuilder_options ==
    /\ client_builder.pc = "new"
    /\ \E options \in OptionMaps :
          client_builder' = [client_builder EXCEPT !.options = Some(options)]
    /\ UNCHANGED <<client, connect_result>>
    /\ UNCHANGED <<pipelineVars, eventVars, cacheVars, contextVars, serviceVars>>

\* ClientBuilder::build: the path is required; the client has no context.
ClientBuilder_build ==
    /\ client_builder.pc = "new"
    /\ IF client_builder.path = None
       THEN /\ client_builder' = [client_builder EXCEPT
                                    !.pc = "failed", !.error = "MissingRequiredAttribute"]
            /\ UNCHANGED client
       ELSE /\ client_builder' = [client_builder EXCEPT !.pc = "consumed"]
            /\ client' = Some([path |-> client_builder.path[1],
                               credentials |-> client_builder.credentials,
                               options |-> client_builder.options,
                               context |-> None])
    /\ UNCHANGED connect_result
    /\ UNCHANGED <<pipelineVars, eventVars, cacheVars, contextVars, serviceVars>>

\* Client::connect(mut self): the client is moved into the call, and what
\* the caller has afterwards is the Result.
Client_connect ==
    /\ client # None
    /\ \E r \in Connect_client(client[1]) : connect_result' = r
    /\ client' = None
    /\ UNCHANGED client_builder
    /\ UNCHANGED <<pipelineVars, eventVars, cacheVars, contextVars, serviceVars>>

InitClient ==
    /\ IdleClient
    /\ IdleBus /\ NotAssembled /\ IdleStages /\ IdleRecon /\ IdleFlow
    /\ IdleHandlers /\ IdleSubscriber
    /\ IdleEvent /\ IdleCache /\ IdleContext /\ IdleServices

NextClient ==
    \/ ClientBuilder_path \/ ClientBuilder_credentials \/ ClientBuilder_options
    \/ ClientBuilder_build \/ Client_connect

SpecClient == InitClient /\ [][NextClient]_vars

\* C29: connect takes the client from its caller and leaves a Result: Ok
\* holds a client whose context is present, Err holds no client; a client
\* that has not been through a successful connect has no context.
C29_Connect ==
    /\ connect_result.returned => client = None
    /\ connect_result.ok => connect_result.value[1].context # None
    /\ (connect_result.returned /\ ~connect_result.ok) =>
           /\ connect_result.value = None
           /\ connect_result.error \in {"EmptyPath", "ParseUrl", "ObjectStore"}
    /\ client # None => client[1].context = None

\* A connect has returned a connected client that was built with
\* credentials.
C29_Witness ==
    /\ connect_result.ok
    /\ client = None
    /\ connect_result.value[1].credentials # None
    /\ connect_result.value[1].context # None

(***************************************************************************)
(* task::context: TaskContextBuilder and TaskContext                       *)
(***************************************************************************)
FlowNames == {"test-flow", "default-test", "clone-test"}
LabelMaps ==
    {{}, {<<"name", "Test Flow">>}, {<<"name", "Test Flow">>, <<"environment", "test">>}}
HostClients == {"lease-host", "other-host"}

\* #[error("Missing required attribute: {}", _0)]: the text of the error.
Display(attribute) == "Missing required attribute: " \o attribute

\* A build that puts an empty name where none was given.
TaskContextBuilder_buildLenient(b) ==
    Ok([flow |-> [name |-> IF b.flow_name = None THEN "" ELSE b.flow_name[1],
                  labels |-> b.flow_labels],
        host |-> b.host])

\* TaskContextBuilder::build: flow_name is required, labels and host are
\* passed on as they are.
TaskContextBuilder_build(b) ==
    IF b.flow_name = None THEN Err(Display("flow_name"))
    ELSE Ok([flow |-> [name |-> b.flow_name[1], labels |-> b.flow_labels],
             host |-> b.host])

\* #[derive(Clone)] on TaskContext, FlowOptions and HostClient: each field is
\* cloned, the host's Arc pointing to the same client.
Clone(c) == [flow |-> [name |-> c.flow.name, labels |-> c.flow.labels], host |-> c.host]

\* flow_name(name) sets Some(name).
TaskContextBuilder_flow_name ==
    /\ context_builder.pc = "new"
    /\ \E name \in FlowNames :
          context_builder' = [context_builder EXCEPT !.flow_name = Some(name)]
    /\ UNCHANGED <<context_result, cloned>>
    /\ UNCHANGED <<pipelineVars, eventVars, cacheVars, clientVars, serviceVars>>

\* flow_labels(labels) assigns the Option it is given.
TaskContextBuilder_flow_labels ==
    /\ context_builder.pc = "new"
    /\ \E labels \in {None} \cup {Some(l) : l \in LabelMaps} :
          context_builder' = [context_builder EXCEPT !.flow_labels = labels]
    /\ UNCHANGED <<context_result, cloned>>
    /\ UNCHANGED <<pipelineVars, eventVars, cacheVars, clientVars, serviceVars>>

\* host(host) assigns the Option it is given.
TaskContextBuilder_host ==
    /\ context_builder.pc = "new"
    /\ \E host \in {None} \cup {Some(h) : h \in HostClients} :
          context_builder' = [context_builder EXCEPT !.host = host]
    /\ UNCHANGED <<context_result, cloned>>
    /\ UNCHANGED <<pipelineVars, eventVars, cacheVars, clientVars, serviceVars>>

\* build(self) consumes the builder.
TaskContextBuilder_consume ==
    /\ context_builder.pc = "new"
    /\ context_builder' = [context_builder EXCEPT !.pc = "consumed"]
    /\ context_result' = TaskContextBuilder_build(context_builder)
    /\ UNCHANGED cloned
    /\ UNCHANGED <<pipelineVars, eventVars, cacheVars, clientVars, serviceVars>>

\* context.clone() of a context that was built.
TaskContext_clone ==
    /\ context_result.ok
    /\ cloned = None
    /\ cloned' = Some(Clone(context_result.value[1]))
    /\ UNCHANGED <<context_builder, context_result>>
    /\ UNCHANGED <<pipelineVars, eventVars, cacheVars, clientVars, serviceVars>>

InitContext ==
    /\ IdleContext
    /\ IdleBus /\ NotAssembled /\ IdleStages /\ IdleRecon /\ IdleFlow
    /\ IdleHandlers /\ IdleSubscriber
    /\ IdleEvent /\ IdleCache /\ IdleClient /\ IdleServices

NextContext ==
    \/ TaskContextBuilder_flow_name \/ TaskContextBuilder_flow_labels
    \/ TaskContextBuilder_host \/ TaskContextBuilder_consume \/ TaskContext_clone

SpecContext == InitContext /\ [][NextContext]_vars

\* C30: build is Ok exactly when flow_name was set and fails otherwise with
\* "Missing required attribute: flow_name"; the context built has the name,
\* labels and host the builder was given, absent where none was given; a
\* clone has the name and labels of its original.
C30_Build ==
    /\ context_result.returned =>
           (context_result.ok <=> context_builder.flow_name # None)
    /\ (context_result.returned /\ ~context_result.ok) =>
           context_result.error = "Missing required attribute: flow_name"
    /\ context_result.ok =>
           /\ context_result.value[1].flow.name = context_builder.flow_name[1]
           /\ context_result.value[1].flow.labels = context_builder.flow_labels
           /\ context_result.value[1].host = context_builder.host
    /\ cloned # None =>
           /\ cloned[1].flow.name = context_result.value[1].flow.name
           /\ cloned[1].flow.labels = context_result.value[1].flow.labels

\* A context built with a name and labels and no host has been cloned.
C30_Witness ==
    /\ context_result.ok
    /\ context_builder.flow_labels # None
    /\ context_builder.host = None
    /\ cloned # None

\* A build with no flow_name has returned its error.
C30_WitnessMissing ==
    /\ context_result.returned
    /\ context_builder.flow_name = None
    /\ context_builder.flow_labels # None

(***************************************************************************)
(* The gate at task id 0                                                   *)
(***************************************************************************)

\* C34: a gated stage built with task id 0 admits no event and does not
\* fail: t - 1 neither panics nor wraps to the greatest id.
C34_NoUnderflow ==
    \A s \in Gated :
        current_task_id[s] = 0 => admitted[s] = <<>> /\ pc[s] # "panicked"

(***************************************************************************)
(* Cache::put on a cache with no store                                     *)
(***************************************************************************)

\* C35: a put returns Ok only when the store took the value, whether or not
\* init has attached a store, and a cache that has not panicked answers a
\* put that could not store with an error.
C35_PutOkStored ==
    \A k \in Keys : cache_log.put[k] # None => cache_log.stored[k]

(***************************************************************************)
(* The batch of the jetstream subscriber                                   *)
(***************************************************************************)

\* The messages among the items the stream has delivered, in order.
DeliveredOk == LET IsOk(item) == item.ok IN SelectSeq(subscriber.delivered, IsOk)

\* C39: a run publishes at most batch_size events; what it has published
\* is, in order, the events of the messages delivered, each with the
\* subscriber's task id; and the turn of an item delivered as an error
\* publishes nothing and does not stop the run, which ends after it only
\* when the batch is full.
C39_Batch ==
    /\ Len(emitted) <= subscriber.batch_size
    /\ Len(subscriber.delivered) <= subscriber.batch_size
    /\ Len(emitted) <= Len(DeliveredOk)
    /\ \A i \in 1 .. Len(emitted) :
          /\ emitted[i].sent.subject = DeliveredOk[i].subject
          /\ emitted[i].sent.data = ToEvent(DeliveredOk[i]).data
          /\ emitted[i].sent.current_task_id = Some(subscriber.current_task_id)
    /\ Len(SentBy("nats")) = Len(emitted)
    /\ (subscriber.delivered # <<>>
          /\ ~subscriber.delivered[Len(subscriber.delivered)].ok) =>
              /\ subscriber.error = "none"
              /\ subscriber.pc = "returned" =>
                     subscriber.task = "Ok" /\ TakeOpen = FALSE

\* A run with batch_size 2 was delivered an error and then a message, and
\* has published the message's event.
C39_Witness ==
    /\ subscriber.batch_size = 2
    /\ Len(subscriber.delivered) = 2
    /\ ~subscriber.delivered[1].ok
    /\ Len(emitted) = 1

(***************************************************************************)
(* One object per admitted event                                           *)
(***************************************************************************)

\* The objects handler h has put to the configured store.
Objects(h) == {i \in 1 .. Len(written) : written[i].h = h /\ written[i].to = "store"}

\* C38: every admitted event whose handler has finished without an error
\* has put exactly one object to the configured store, whatever its data
\* variant, named after the event's id or else after the timestamp.
C38_OneObjectPerEvent ==
    \A h \in 1 .. Len(handlers) :
        handlers[h].pc = "done" =>
            /\ Cardinality(Objects(h)) = 1
            /\ \A i \in Objects(h) :
                  written[i].name = AvroPath(handlers[h].filename[1])

(***************************************************************************)
(* Two builds of the publisher at the same time                            *)
(***************************************************************************)
ConcurrentBuilders == {"b1", "b2"}

\* Two stages have called Builder::build on the same stream, each with its
\* own configuration, and neither has yet connected.
InitConcurrent ==
    /\ stream \in InitialStreams
    /\ \E configs \in [ConcurrentBuilders -> Configs] :
          builder = [b \in ConcurrentBuilders |->
                        [IdleBuilder EXCEPT !.config = configs[b], !.start = stream,
                                            !.pc = "connect"]]
    /\ applied = {}
    /\ last = NoBuild
    /\ IdleBus /\ NotAssembled /\ IdleStages /\ IdleFlow
    /\ IdleHandlers /\ IdleSubscriber /\ IdleUnits

\* The steps of the two builds, interleaved in any way.
NextConcurrent ==
    \E b \in ConcurrentBuilders :
        \/ Connect(b)
        \/ GetStream(b)
        \/ StreamInfo(b)
        \/ UpdateStream(b)
        \/ CreateStream(b)

SpecConcurrent == InitConcurrent /\ [][NextConcurrent]_vars

\* C33: when both builds have succeeded, the stream has the subjects of both
\* and every subject it had before either began.
C33_ConcurrentUnion ==
    (\A b \in ConcurrentBuilders : builder[b].pc = "ok") =>
        \A b \in ConcurrentBuilders :
            /\ SetOf(builder[b].config.subjects) \subseteq RemoteSubjects
            /\ builder[b].start.exists =>
                   SetOf(builder[b].start.config.subjects) \subseteq RemoteSubjects

(***************************************************************************)
(* task::manager: TaskManager                                              *)
(***************************************************************************)
MaxRegisters == 3
TaskNames == {"task-a", "task-b"}
LeaderOptions == {None, Some("LeaderElectionOptions")}
baseVars == <<pipelineVars, eventVars, cacheVars, clientVars, contextVars>>

\* `if let Some(tx) = self.tx.lock().await.as_ref()`: the registration is
\* sent only when start has stored a sender.
Enqueues(tx) == tx # None

\* TaskManager::start: the channel is made, its sender stored and the event
\* loop spawned on its receiver.
TaskManager_start ==
    /\ ~manager.started
    /\ manager' = [manager EXCEPT !.started = TRUE, !.tx = Some("tx")]
    /\ UNCHANGED <<generate, connector, baseVars>>

\* TaskManager::register: the registration, numbered by its call, is sent on
\* the channel when there is a sender; Ok(()) is returned with or without.
\* The send cannot fail while the loop holds the receiver.
TaskManager_register ==
    /\ Len(manager.calls) < MaxRegisters
    /\ \E task_id \in TaskNames, options \in LeaderOptions :
          LET n == Len(manager.calls) + 1
              registration == [n |-> n, task_id |-> task_id,
                               leader_election_options |-> options]
          IN manager' = [manager EXCEPT
                 !.calls = Append(@, [registration |-> registration, result |-> "Ok"]),
                 !.queue = IF Enqueues(manager.tx) THEN Append(@, registration) ELSE @]
    /\ UNCHANGED <<generate, connector, baseVars>>

\* One turn of `while let Some(registration) = rx.recv().await`.
TaskManager_loop ==
    /\ manager.started
    /\ manager.queue # <<>>
    /\ manager' = [manager EXCEPT !.received = Append(@, Head(manager.queue)),
                                  !.queue = Tail(@)]
    /\ UNCHANGED <<generate, connector, baseVars>>

InitManager ==
    /\ manager = NewManager
    /\ generate = NewGenerate
    /\ connector = [NewConnector("none") EXCEPT !.pc = "idle"]
    /\ IdleBus /\ NotAssembled /\ IdleStages /\ IdleRecon /\ IdleFlow
    /\ IdleHandlers /\ IdleSubscriber
    /\ IdleEvent /\ IdleCache /\ IdleClient /\ IdleContext

NextManager == TaskManager_start \/ TaskManager_register \/ TaskManager_loop

SpecManager == InitManager /\ [][NextManager]_vars

\* C36: every register that has returned Ok has put its registration on
\* the manager's channel, so that it is waiting there or has been received,
\* whether start was called before the register or after it.
C36_Registered ==
    \A i \in 1 .. Len(manager.calls) :
        manager.calls[i].result = "Ok" =>
            \E q \in {manager.queue, manager.received} :
                \E j \in 1 .. Len(q) : q[j] = manager.calls[i].registration

\* C36, for the registers made after start: what the loop has received and
\* what waits for it are these registrations, once each, in call order.
C36_AfterStart ==
    LET all == manager.received \o manager.queue IN
    \A i, j \in 1 .. Len(all) : i < j => all[i].n < all[j].n

(***************************************************************************)
(* task::generate: Subscriber::run                                         *)
(***************************************************************************)
MaxCount == 2

\* The counts a generate source is configured with: none, or 0 .. MaxCount.
Counts == {None} \cup {Some(n) : n \in 0 .. MaxCount}

\* `counter += 1` on an unsigned integer, here of UsizeBits bits: at the
\* greatest value it panics with overflow checks and wraps without them.
Increment(counter) == IF counter = UsizeMax THEN 0 ELSE counter + 1

\* The event of one turn: Json data, the generated subject, the source's id.
GenerateEvent ==
    EventBuilder_build([NewEventBuilder EXCEPT
        !.data = Some("Json"), !.subject = Some("generate"),
        !.current_task_id = Some(generate.current_task_id)])

\* `Some(count) if count == counter => break`, anything else continues.
Breaks(count, counter) == count # None /\ count[1] = counter

\* One turn of the loop: the sleep, the counter, the event built and sent,
\* each `?` returning its error, and the match on the count.
GenerateTurn ==
    /\ generate.pc = "run"
    /\ Len(generate.published) <= UsizeMax
    /\ LET counter == Increment(generate.counter)
           e == GenerateEvent
       IN IF generate.counter = UsizeMax /\ generate.overflow_checks
          THEN generate' = [generate EXCEPT !.pc = "panicked"]
          ELSE IF ~e.ok
          THEN generate' = [generate EXCEPT !.pc = "returned", !.counter = counter,
                                            !.result = Err("Event")]
          ELSE IF ~generate.receiver
          THEN generate' = [generate EXCEPT !.pc = "returned", !.counter = counter,
                                            !.result = Err("SendMessage")]
          ELSE generate' = [generate EXCEPT
                   !.counter = counter,
                   !.published = Append(@, e.value[1]),
                   !.pc = IF Breaks(generate.count, counter) THEN "returned" ELSE "run",
                   !.result = IF Breaks(generate.count, counter) THEN Ok("unit") ELSE @]
    /\ UNCHANGED <<manager, connector, baseVars>>

\* The last receiver of the channel is dropped.
GenerateDropRx ==
    /\ generate.pc = "run"
    /\ generate.receiver
    /\ generate' = [generate EXCEPT !.receiver = FALSE]
    /\ UNCHANGED <<manager, connector, baseVars>>

\* A source built with some count and task id, run on a channel that has a
\* receiver or none, in a build with or without overflow checks.
InitGenerate ==
    /\ \E count \in Counts, t \in 0 .. 1, receiver, checks \in BOOLEAN :
          generate = [NewGenerate EXCEPT !.pc = "run", !.count = count,
                                         !.current_task_id = t, !.receiver = receiver,
                                         !.overflow_checks = checks]
    /\ manager = NewManager
    /\ connector = [NewConnector("none") EXCEPT !.pc = "idle"]
    /\ IdleBus /\ NotAssembled /\ IdleStages /\ IdleRecon /\ IdleFlow
    /\ IdleHandlers /\ IdleSubscriber
    /\ IdleEvent /\ IdleCache /\ IdleClient /\ IdleContext

NextGenerate == GenerateTurn \/ GenerateDropRx

SpecGenerate == InitGenerate /\ [][NextGenerate]_vars

\* C37: a source with count n never publishes more than n events and has
\* published n when it returns Ok; every event has the source's task id; a
\* source with no count does not return Ok.
C37_ExactlyCount ==
    /\ generate.count # None =>
           /\ Len(generate.published) <= generate.count[1]
           /\ generate.result.ok => Len(generate.published) = generate.count[1]
    /\ \A i \in 1 .. Len(generate.published) :
           generate.published[i].current_task_id = Some(generate.current_task_id)
    /\ generate.count = None => ~generate.result.ok

\* C37, for the counts of at least 1: the same.
C37_FromOne ==
    (generate.count # None /\ generate.count[1] >= 1) =>
        /\ Len(generate.published) <= generate.count[1]
        /\ generate.result.ok => Len(generate.published) = generate.count[1]

(***************************************************************************)
(* Connector builders: WriterBuilder, SubscriberBuilder, CacheBuilder      *)
(***************************************************************************)
ConnectorKinds == {"writer", "generate", "nats", "cache"}
ConfigValues == {"config-a", "config-b"}
Channels == {"channel-a", "channel-b"}

\* Error::MissingRequiredAttribute(attribute.to_string()).
Missing(attribute) == "MissingRequiredAttribute: " \o attribute

\* A build that passes on whatever was set, set or not.
WriterBuilder_buildPartial(b) ==
    Ok([config |-> b.config, rx |-> b.channel, current_task_id |-> b.current_task_id])

\* WriterBuilder::build: config, then receiver, are required.
WriterBuilder_build(b) ==
    IF b.config = None THEN Err(Missing("config"))
    ELSE IF b.channel = None THEN Err(Missing("receiver"))
    ELSE Ok([config |-> b.config[1], rx |-> b.channel[1],
             current_task_id |-> b.current_task_id])

\* generate SubscriberBuilder::build: config, then sender, are required.
SubscriberBuilder_build(b) ==
    IF b.config = None THEN Err(Missing("config"))
    ELSE IF b.channel = None THEN Err(Missing("sender"))
    ELSE Ok([config |-> b.config[1], tx |-> b.channel[1],
             current_task_id |-> b.current_task_id])

\* jetstream SubscriberBuilder::build: config, then sender, are required.
JetStreamSubscriberBuilder_build(b) ==
    IF b.config = None THEN Err(Missing("config"))
    ELSE IF b.channel = None THEN Err(Missing("sender"))
    ELSE Ok([config |-> b.config[1], tx |-> b.channel[1],
             current_task_id |-> b.current_task_id])

\* CacheBuilder::build: credentials_path is required; the cache has no store.
CacheBuilder_build(b) ==
    IF b.credentials_path = None THEN Err(Missing("credentials"))
    ELSE Ok([credentials_path |-> b.credentials_path[1], store |-> None])

\* The setters of each builder: config, receiver or sender and
\* current_task_id for the writer and the two sources, credentials_path for
\* the cache.
Connector_set ==
    /\ connector.pc = "new"
    /\ \/ /\ connector.kind \in {"writer", "generate", "nats"}
          /\ \/ \E config \in ConfigValues :
                   connector' = [connector EXCEPT !.config = Some(config)]
             \/ \E channel \in Channels :
                   connector' = [connector EXCEPT !.channel = Some(channel)]
             \/ \E t \in 0 .. 1 :
                   connector' = [connector EXCEPT !.current_task_id = t]
       \/ /\ connector.kind = "cache"
          /\ \E path \in CredentialPaths :
                connector' = [connector EXCEPT !.credentials_path = Some(path)]
    /\ UNCHANGED <<manager, generate, baseVars>>

\* build(self) of the builder's kind.
Connector_build ==
    /\ connector.pc = "new"
    /\ connector' = [connector EXCEPT
          !.pc = "consumed",
          !.result = CASE connector.kind = "writer" -> WriterBuilder_build(connector)
                       [] connector.kind = "generate" -> SubscriberBuilder_build(connector)
                       [] connector.kind = "nats" ->
                            JetStreamSubscriberBuilder_build(connector)
                       [] connector.kind = "cache" -> CacheBuilder_build(connector)]
    /\ UNCHANGED <<manager, generate, baseVars>>

InitConnector ==
    /\ \E kind \in ConnectorKinds : connector = NewConnector(kind)
    /\ manager = NewManager
    /\ generate = NewGenerate
    /\ IdleBus /\ NotAssembled /\ IdleStages /\ IdleRecon /\ IdleFlow
    /\ IdleHandlers /\ IdleSubscriber
    /\ IdleEvent /\ IdleCache /\ IdleClient /\ IdleContext

NextConnector == Connector_set \/ Connector_build

SpecConnector == InitConnector /\ [][NextConnector]_vars

\* The required fields of each builder and the name build reports them by.
Required(kind) ==
    IF kind = "cache" THEN {"credentials_path"} ELSE {"config", "channel"}
AttributeName(kind, field) ==
    CASE field = "config" -> "config"
      [] field = "credentials_path" -> "credentials"
      [] field = "channel" -> IF kind = "writer" THEN "receiver" ELSE "sender"

C31_WitnessMissing ==
    /\ connector.kind = "writer"
    /\ connector.config # None
    /\ connector.result.error = "MissingRequiredAttribute: receiver"

(***************************************************************************)
(* Termination of the pipeline                                             *)
(***************************************************************************)
\* Every task of the pipeline is scheduled: a step that stays possible is
\* eventually taken, the drop of the orchestrator's Sender included.
FairSpec ==
    /\ Init
    /\ [][Next]_vars
    /\ WF_vars(FileBuild) /\ WF_vars(FileBatch) /\ WF_vars(FileEnd)
    /\ WF_vars(HttpBuild) /\ WF_vars(HttpRecv) /\ WF_vars(HttpWork)
    /\ WF_vars(WriterBuild) /\ WF_vars(WriterRecv)
    /\ WF_vars(DropTx) /\ WF_vars(ExternalSend)

\* Every stage is spawned, the source has ended and every live receiver has
\* read up to the tail of the channel.
SourceDrained ==
    /\ assembled = Cardinality(Stages)
    /\ Ended("file")
    /\ \A s \in Gated : rx[s].state = "live" => rx[s].next = tail

\* C32: once the source has finished and every event it published has been
\* consumed, every downstream stage eventually leaves its receive loop: none
\* waits forever on a channel that can carry no new event.
C32_Termination == SourceDrained ~> (\A s \in Gated : ~Looping(s))

====
